---- MODULE Spec2Model ----
(***************************************************************************)
(* A model of erela.js: the per-guild playback session (Player + Queue)    *)
(* driven by host commands and by the track-lifecycle events a Lavalink    *)
(* node sends, and the node's connection lifecycle (connect, reconnect     *)
(* with bounded retries, destroy).                                         *)
(*                                                                         *)
(*   Spec       the playback session: host commands and node events        *)
(*   SpecQueue  the queue container alone: add / remove                    *)
(*   SpecNode   one node's socket, reconnect timers and pool membership    *)
(*   SpecVoice  the voice packets the host forwards to the Manager         *)
(*   SpecControl  volume and seek commands of a session                    *)
(*   SpecShuffle  shuffle / unshuffle of the queue                         *)
(*   SpecRest   REST calls, their counter, and the node search() selects   *)
(*   SpecResolve  the choice getClosestTrack makes among search results    *)
(*   SpecPool   the node and player pools: creation, leastLoadNodes        *)
(*   SpecFrames  the frames of a node's socket and what they do to a player *)
(*   SpecSession  the session with play, stop, clear and every track event *)
(*   SpecLifecycle  connect, disconnect and destroy of a player            *)
(*   SpecDrop   event frames for guilds with and without a player          *)
(*   SpecToggle  shuffle play switched on and off                          *)
(*   SpecRetry  play() over tracks that fail to resolve (with fairness)    *)
(*   SpecTeardown  two nodes of one pool, their players and node.destroy() *)
(*   SpecFlags  the playing and paused flags of a session                  *)
(***************************************************************************)
EXTENDS Integers, Sequences, FiniteSets, TLC

VARIABLES
    player,     \* the Player and its Queue (fields below) plus what the running handler put out
    autoPlay,   \* manager.options.autoPlay
    last,       \* the operation that made the last step, and its discriminating input
    node,       \* the Node's fields and the environment's view of its sockets and timers
    retryAmount,\* node.options.retryAmount
    manager,    \* the Manager's node pool: each node's connection, REST counter and requests
    resolver    \* a call of TrackUtils.getClosestTrack: its argument, the search result, its outcome

vars == <<player, autoPlay, last, node, retryAmount, manager, resolver>>

(***************************************************************************)
(* Bounds of the model.                                                    *)
(***************************************************************************)
MaxQueue == 2          \* longest queue the host builds with add
MaxResolving == 1      \* play() calls awaiting a track resolution at a time
MaxRetryAmount == 3    \* largest configured retryAmount
MaxLostTimers == 1     \* reconnect timers whose handle was overwritten
MaxStray == 1          \* sockets with handlers attached that node.socket no longer names
MaxCalls == 3          \* largest REST counter of a node
MaxRequests == 1       \* unanswered REST requests of a node at a time
MaxShuffled == 3       \* longest queue that is shuffled
MaxResults == 3        \* longest list of tracks a search returns
MaxInFlight == 2       \* most disconnect() and destroy() calls awaiting the node

(***************************************************************************)
(* Tracks.  A track is an object; the model names each object.  "A", "B"   *)
(* and "C" are resolved tracks, "U" is an unresolved track, "R" is the     *)
(* resolved track a successful search for "U" returns.  "X" is an object   *)
(* that carries neither track marker.                                      *)
(***************************************************************************)
Null == "null"
ResolvedTracks == {"A", "B", "C", "R"}
UnresolvedTracks == {"U"}
Tracks == ResolvedTracks \cup UnresolvedTracks
HostTracks == {"A", "U"}
NotATrack == "X"

Range(s) == {s[i] : i \in 1..Len(s)}
Min(a, b) == IF a < b THEN a ELSE b
Max(a, b) == IF a > b THEN a ELSE b

\* A key an object does not have
Absent == "absent"

\* player.voiceState as constructed (and after a disconnect): none of the three keys
NoVoiceState == [token |-> Absent, endpoint |-> Absent, sessionId |-> Absent]

\* TrackUtils.isUnresolvedTrack
IsUnresolvedTrack(t) == t \in UnresolvedTracks

\* TrackUtils.validate: an array must be non-empty and hold only tracks; anything
\* else must itself be a track.  arg = [arr |-> is an array, items |-> its elements].
Validate(arg) ==
    IF arg.arr /\ Len(arg.items) > 0
    THEN \A i \in 1..Len(arg.items) : arg.items[i] \in Tracks
    ELSE ~arg.arr /\ arg.items[1] \in Tracks

\* TrackUtils.getClosestTrack, when the search succeeds: a freshly built track
ClosestTrack(u) == "R"

(***************************************************************************)
(* What a handler puts out: events emitted on the manager, REST calls and  *)
(* exceptions, in order.  Begin clears it when the next handler starts.    *)
(***************************************************************************)
Begin(p) == [p EXCEPT !.out = <<>>]
Emit(p, name, track) == [p EXCEPT !.out = Append(@, <<"emit", name, track>>)]
UpdatePlayer(p, field, value) == [p EXCEPT !.out = Append(@, <<"updatePlayer", field, value>>)]
Throw(p, error) == [p EXCEPT !.out = Append(@, <<"throw", error, Null>>)]

(***************************************************************************)
(* Queue                                                                   *)
(***************************************************************************)
\* Queue.totalSize / Queue.size
Size(p) == Len(p.queue)
TotalSize(p) == Len(p.queue) + (IF p.current # Null THEN 1 ELSE 0)

\* Array.prototype.splice(start, deleteCount, ...items) on the queue
Splice(q, start, deleteCount, items) ==
    LET len == Len(q)
        from == IF start < 0 THEN Max(len + start, 0) ELSE Min(start, len)
        dc == Min(Max(deleteCount, 0), len - from)
    IN SubSeq(q, 1, from) \o items \o SubSeq(q, from + dc + 1, len)

\* Array.prototype.shift() into queue.current: undefined when the queue is empty
ShiftCurrent(p) ==
    IF p.queue = <<>>
    THEN [p EXCEPT !.current = Null]
    ELSE [p EXCEPT !.current = Head(p.queue), !.queue = Tail(p.queue)]

SetPrevious(p) == [p EXCEPT !.previous = p.current]

\* A plausible slip: the array's first element becomes current and is queued too.
QueueAddKeepFirst(p, arg, offset) ==
    IF ~Validate(arg) THEN Throw(p, "RangeError")
    ELSE IF p.current = Null /\ ~arg.arr THEN [p EXCEPT !.current = arg.items[1]]
    ELSE LET p1 == IF p.current = Null THEN [p EXCEPT !.current = Head(arg.items)] ELSE p
         IN IF offset # <<>> /\ (offset[1] < 0 \/ offset[1] > Len(p1.queue))
            THEN Throw(p1, "RangeError")
            ELSE IF offset = <<>>
                 THEN [p1 EXCEPT !.queue = @ \o arg.items]
                 ELSE [p1 EXCEPT !.queue = Splice(@, offset[1], 0, arg.items)]

\* A plausible slip: the offset is checked but the tracks are always appended.
QueueAddAppends(p, arg, offset) ==
    IF ~Validate(arg) THEN Throw(p, "RangeError")
    ELSE IF p.current = Null /\ ~arg.arr THEN [p EXCEPT !.current = arg.items[1]]
    ELSE LET p1 == IF p.current = Null THEN [p EXCEPT !.current = Head(arg.items)] ELSE p
             items == IF p.current = Null THEN Tail(arg.items) ELSE arg.items
         IN IF offset # <<>> /\ (offset[1] < 0 \/ offset[1] > Len(p1.queue))
            THEN Throw(p1, "RangeError")
            ELSE [p1 EXCEPT !.queue = @ \o items]

\* Queue.add(track, offset): offset = <<>> when not given, <<n>> otherwise
QueueAdd(p, arg, offset) ==
    IF ~Validate(arg) THEN Throw(p, "RangeError")
    ELSE IF p.current = Null /\ ~arg.arr THEN [p EXCEPT !.current = arg.items[1]]
    ELSE LET p1 == IF p.current = Null THEN [p EXCEPT !.current = Head(arg.items)] ELSE p
             items == IF p.current = Null THEN Tail(arg.items) ELSE arg.items
         IN IF offset # <<>> /\ (offset[1] < 0 \/ offset[1] > Len(p1.queue))
            THEN Throw(p1, "RangeError")
            ELSE IF offset = <<>>
                 THEN [p1 EXCEPT !.queue = @ \o items]
                 ELSE [p1 EXCEPT !.queue = Splice(@, offset[1], 0, items)]

\* Queue.remove(startOrPosition = 0, end): end = <<>> when not given
QueueRemove(p, start, end) ==
    IF end # <<>>
    THEN IF start >= end[1] \/ start >= Len(p.queue)
         THEN Throw(p, "RangeError")
         ELSE [p EXCEPT !.queue = Splice(@, start, end[1] - start, <<>>)]
    ELSE [p EXCEPT !.queue = Splice(@, start, 1, <<>>)]

\* track.buildedAt: TrackUtils.build stamps Date.now(), so the tracks of one search
\* result ("B" and "C") can carry the same stamp; an unresolved track has none (<<>>)
BuildedAt(t) ==
    CASE t = "A" -> <<1>>
      [] t = "B" -> <<2>>
      [] t = "C" -> <<2>>
      [] t = "R" -> <<3>>
      [] OTHER -> <<>>

\* the place of (track.identifier || track.title) in the order of localeCompare
IdentifierRank(t) ==
    CASE t = "A" -> 1
      [] t = "B" -> 2
      [] t = "C" -> 3
      [] t = "R" -> 4
      [] OTHER -> 5

\* A plausible slip: the comparator subtracts the wrong way round.
CompareNewestFirst(a, b) ==
    IF BuildedAt(a) = BuildedAt(b) THEN IdentifierRank(a) - IdentifierRank(b)
    ELSE IF BuildedAt(a) = <<>> \/ BuildedAt(b) = <<>> THEN 0
    ELSE BuildedAt(b)[1] - BuildedAt(a)[1]

\* the comparator of Queue.unshuffle; a difference with undefined is NaN, which sort
\* takes as 0
Compare(a, b) ==
    IF BuildedAt(a) = BuildedAt(b) THEN IdentifierRank(a) - IdentifierRank(b)
    ELSE IF BuildedAt(a) = <<>> \/ BuildedAt(b) = <<>> THEN 0
    ELSE BuildedAt(a)[1] - BuildedAt(b)[1]

\* the comparator orders the tracks of S consistently
Consistent(S) ==
    \A a, b, c \in S :
        /\ (Compare(a, b) < 0) = (Compare(b, a) > 0)
        /\ (Compare(a, b) <= 0 /\ Compare(b, c) <= 0) => Compare(a, c) <= 0

\* Array.prototype.sort with a consistent comparator: stable, so a track goes
\* behind every track the comparator does not put after it
RECURSIVE StableSort(_)
StableSort(q) ==
    IF q = <<>> THEN <<>>
    ELSE LET sorted == StableSort(SubSeq(q, 1, Len(q) - 1))
             x == q[Len(q)]
             k == Cardinality({i \in 1..Len(sorted) : Compare(sorted[i], x) <= 0})
         IN SubSeq(sorted, 1, k) \o <<x>> \o SubSeq(sorted, k + 1, Len(sorted))

Swap(q, i, j) == [q EXCEPT ![i] = q[j], ![j] = q[i]]

\* the orders of q that move its first n items only; all of them when n = Len(q)
RECURSIVE Reorderings(_, _)
Reorderings(q, n) ==
    IF n <= 1 THEN {q}
    ELSE UNION {Reorderings(Swap(q, n, j), n - 1) : j \in 1..n}

\* Queue.unshuffle: with a comparator that is not consistent the order sort leaves
\* is up to the engine
UnshuffleResults(q) ==
    IF Consistent(Range(q)) THEN {StableSort(q)} ELSE Reorderings(q, Len(q))

\* Queue.shuffle: for i from the last index down, j = floor(random * (i + 1)), swap
ShuffleResults(q) == Reorderings(q, Len(q))

(***************************************************************************)
(* Player                                                                  *)
(***************************************************************************)
\* Player.play from "if (!this.queue.current)" on: an unresolved current starts a
\* resolution the call awaits; a resolved one is sent to the node at once.
PlayCurrent(p) ==
    IF p.current = Null THEN Throw(p, "RangeError")
    ELSE IF IsUnresolvedTrack(p.current)
         THEN [p EXCEPT !.resolving = Append(@, p.current)]
         ELSE UpdatePlayer(p, "encodedTrack", p.current)

\* player.play() without arguments
Play(p) == PlayCurrent([p EXCEPT !.out = Append(@, <<"play", Null, p.current>>)])

\* player.play(track)
PlayTrack(p, t) ==
    PlayCurrent([p EXCEPT !.out = Append(@, <<"play", Null, t>>),
                          !.previous = IF p.current # Null THEN p.current ELSE @,
                          !.current = t])

\* Player.play after getClosestTrack resolved
PlayResolved(p, i) ==
    LET r == ClosestTrack(p.resolving[i])
        p1 == [p EXCEPT !.current = r,
                        !.resolving = SubSeq(@, 1, i - 1) \o SubSeq(@, i + 1, Len(@))]
    IN UpdatePlayer(p1, "encodedTrack", r)

\* Player.play after getClosestTrack rejected
PlayRejected(p, i) ==
    LET p1 == Emit([p EXCEPT !.resolving = SubSeq(@, 1, i - 1) \o SubSeq(@, i + 1, Len(@))],
                   "trackError", p.current)
    IN IF p1.queue # <<>> THEN PlayTrack(p1, p1.queue[1]) ELSE p1

\* Queue.clear
Clear(p) == [p EXCEPT !.queue = <<>>]

\* A plausible slip: stop() also empties the current slot.
StopClearsCurrent(p, amount) ==
    IF amount # <<>> /\ amount[1] > 1
    THEN IF amount[1] > Len(p.queue) THEN Throw(p, "RangeError")
         ELSE UpdatePlayer([p EXCEPT !.queue = SubSeq(@, amount[1], Len(@)), !.current = Null],
                           "encodedTrack", Null)
    ELSE UpdatePlayer([p EXCEPT !.current = Null], "encodedTrack", Null)

\* A plausible slip: stop(n) removes n queued items instead of n - 1.
StopRemovesAmount(p, amount) ==
    IF amount # <<>> /\ amount[1] > 1
    THEN IF amount[1] > Len(p.queue) THEN Throw(p, "RangeError")
         ELSE UpdatePlayer([p EXCEPT !.queue = SubSeq(@, amount[1] + 1, Len(@))],
                           "encodedTrack", Null)
    ELSE UpdatePlayer(p, "encodedTrack", Null)

\* Player.stop: a number handed to it is <<n>>, no argument is <<>>
Stop(p, amount) ==
    IF amount # <<>> /\ amount[1] > 1
    THEN IF amount[1] > Len(p.queue) THEN Throw(p, "RangeError")
         ELSE UpdatePlayer([p EXCEPT !.queue = SubSeq(@, amount[1], Len(@))],
                           "encodedTrack", Null)
    ELSE UpdatePlayer(p, "encodedTrack", Null)

\* A plausible slip: the flags of a session that holds no track are set too.
PauseEmptySession(p, pause) ==
    IF p.paused = pause THEN p
    ELSE UpdatePlayer([p EXCEPT !.playing = ~pause, !.paused = pause], "paused",
                      IF pause THEN "true" ELSE "false")

\* Player.pause
Pause(p, pause) ==
    IF p.paused = pause \/ TotalSize(p) = 0 THEN p
    ELSE UpdatePlayer([p EXCEPT !.playing = ~pause, !.paused = pause], "paused",
                      IF pause THEN "true" ELSE "false")

\* A number handed to a command is <<n>>; <<>> is NaN.
DefaultVolume == 100
MaxVolume == 1000

\* A plausible slip: only the upper end of the range is enforced.
SetVolumeNoFloor(p, volume) ==
    IF volume = <<>> THEN Throw(p, "TypeError")
    ELSE LET v == Min(volume[1], MaxVolume)
         IN UpdatePlayer([p EXCEPT !.volume = v], "volume", ToString(v))

\* Player.setVolume
SetVolume(p, volume) ==
    IF volume = <<>> THEN Throw(p, "TypeError")
    ELSE LET v == Max(Min(volume[1], MaxVolume), 0)
         IN UpdatePlayer([p EXCEPT !.volume = v], "volume", ToString(v))

\* track.duration: TrackUtils.build copies info.length; an unresolved track built
\* from a title alone has none (<<>>)
Duration(t) ==
    CASE t = "A" -> <<2>>
      [] t = "B" -> <<1>>
      [] t = "C" -> <<1>>
      [] t = "R" -> <<3>>
      [] OTHER -> <<>>

\* A plausible slip: the position is sent as given and clamped only locally.
SeekSendsGiven(p, position) ==
    IF p.current = Null THEN p
    ELSE IF position = <<>> THEN Throw(p, "RangeError")
    ELSE LET d == Duration(p.current)
             pos == IF position[1] < 0 \/ (d # <<>> /\ position[1] > d[1])
                    THEN (IF d = <<>> THEN <<>> ELSE <<Max(Min(position[1], d[1]), 0)>>)
                    ELSE position
         IN UpdatePlayer([p EXCEPT !.position = pos], "position", ToString(position))

\* Player.seek.  Math.min(position, undefined) is NaN, and so is Math.max(NaN, 0).
Seek(p, position) ==
    IF p.current = Null THEN p
    ELSE IF position = <<>> THEN Throw(p, "RangeError")
    ELSE LET d == Duration(p.current)
             pos == IF position[1] < 0 \/ (d # <<>> /\ position[1] > d[1])
                    THEN (IF d = <<>> THEN <<>> ELSE <<Max(Min(position[1], d[1]), 0)>>)
                    ELSE position
         IN UpdatePlayer([p EXCEPT !.position = pos], "position", ToString(pos))

\* Player.setTrackRepeat / Player.setQueueRepeat
SetTrackRepeat(p, repeat) == [p EXCEPT !.trackRepeat = repeat, !.queueRepeat = FALSE]
\* A plausible slip: turning queue repeat on leaves track repeat as it was.
SetQueueRepeatKeepsTrackRepeat(p, repeat) == [p EXCEPT !.queueRepeat = repeat]
SetQueueRepeat(p, repeat) == [p EXCEPT !.queueRepeat = repeat, !.trackRepeat = FALSE]

(***************************************************************************)
(* Node: the track-lifecycle handlers.  track is queue.current at dispatch *)
(* time (Node.handleEvent).                                                *)
(***************************************************************************)
\* A plausible slip: the queue ends but the player still counts as playing.
QueueEndStillPlaying(p, track) ==
    Emit([p EXCEPT !.current = Null], "queueEnd", track)

\* Node.queueEnd
QueueEnd(p, track) ==
    Emit([p EXCEPT !.current = Null, !.playing = FALSE], "queueEnd", track)

\* manager.emit('trackEnd', ...) ; if (autoPlay) player.play()
EndThenAutoPlay(p, track) ==
    LET e == Emit(p, "trackEnd", track)
    IN IF autoPlay THEN Play(e) ELSE e

\* Node.trackEnd, first branch: the reason is one of 'LOAD_FAILED', 'CLEAN_UP'
TrackEndLoadFailed(p, track) ==
    LET n == ShiftCurrent(SetPrevious(p))
    IN IF n.current = Null THEN QueueEnd(n, track) ELSE EndThenAutoPlay(n, track)

\* A plausible slip: a replaced track is treated like a finished one.
TrackEndReplacedAdvances(p, track) ==
    IF p.queue = <<>> THEN Emit(p, "trackEnd", track)
    ELSE EndThenAutoPlay(ShiftCurrent(SetPrevious(p)), track)

\* Node.trackEnd, second branch: the reason is 'replaced'
TrackEndReplaced(p, track) == Emit(p, "trackEnd", track)

\* A plausible slip: track repeat ignores that the track was stopped.
TrackEndTrackRepeatAlways(p, track, reason) == EndThenAutoPlay(p, track)

\* Node.trackEnd, third branch: track && player.trackRepeat
TrackEndTrackRepeat(p, track, reason) ==
    LET n == IF reason = "stopped" THEN ShiftCurrent(SetPrevious(p)) ELSE p
    IN IF n.current = Null THEN QueueEnd(n, track) ELSE EndThenAutoPlay(n, track)

\* A plausible slip: queue repeat forgets to put the ended track back.
TrackEndQueueRepeatDrops(p, track, reason) ==
    LET s == ShiftCurrent(SetPrevious(p))
    IN IF s.current = Null THEN QueueEnd(s, track) ELSE EndThenAutoPlay(s, track)

\* Node.trackEnd, fourth branch: track && player.queueRepeat
TrackEndQueueRepeat(p, track, reason) ==
    LET n == SetPrevious(p)
    IN IF reason = "stopped"
       THEN LET s == ShiftCurrent(n)
            IN IF s.current = Null THEN QueueEnd(s, track) ELSE EndThenAutoPlay(s, track)
       ELSE EndThenAutoPlay(
                ShiftCurrent(QueueAdd(n, [arr |-> FALSE, items |-> <<n.current>>], <<>>)),
                track)

\* A plausible slip: the advance forgets to remember the ended track.
TrackEndNextNoPrevious(p, track) == EndThenAutoPlay(ShiftCurrent(p), track)

\* Node.trackEnd, fifth branch: player.queue.length
TrackEndNext(p, track) == EndThenAutoPlay(ShiftCurrent(SetPrevious(p)), track)

\* The reasons the first branch of Node.trackEnd tests for
IsLoadFailure(reason) == reason \in {"LOAD_FAILED", "CLEAN_UP"}

\* Node.trackEnd
TrackEnd(p, reason) ==
    LET track == p.current
    IN IF IsLoadFailure(reason) THEN TrackEndLoadFailed(p, track)
       ELSE IF reason = "replaced" THEN TrackEndReplaced(p, track)
       ELSE IF track # Null /\ p.trackRepeat THEN TrackEndTrackRepeat(p, track, reason)
       ELSE IF track # Null /\ p.queueRepeat THEN TrackEndQueueRepeat(p, track, reason)
       ELSE IF Len(p.queue) > 0 THEN TrackEndNext(p, track)
       ELSE QueueEnd(p, track)

\* A plausible slip: a track start leaves the paused flag as it is.
TrackStartKeepsPaused(p) == Emit([p EXCEPT !.playing = TRUE], "trackStart", p.current)

\* Node.trackStart
TrackStart(p) == Emit([p EXCEPT !.playing = TRUE, !.paused = FALSE], "trackStart", p.current)

(***************************************************************************)
(* Inputs                                                                  *)
(***************************************************************************)
\* TrackEndReason as declared, and the two strings Node.trackEnd compares with
TrackEndReason == {"finished", "loadFailed", "stopped", "replaced", "cleanup"}
Reasons == TrackEndReason \cup {"LOAD_FAILED", "CLEAN_UP"}

AddArgs ==
    {[arr |-> FALSE, items |-> <<t>>] : t \in HostTracks \cup {NotATrack}}
    \cup {[arr |-> TRUE, items |-> <<>>]}
    \cup {[arr |-> TRUE, items |-> <<t>>] : t \in HostTracks}
    \cup {[arr |-> TRUE, items |-> <<t, u>>] : t \in HostTracks, u \in HostTracks \cup {NotATrack}}
HostAddArgs ==
    {[arr |-> FALSE, items |-> <<t>>] : t \in HostTracks}
    \cup {[arr |-> TRUE, items |-> <<t, u>>] : t \in {"A"}, u \in {"U"}}
Offsets == {<<>>} \cup {<<n>> : n \in -1..(MaxQueue + 1)}
Positions == -1..(MaxQueue + 1)
Ends == {<<>>} \cup {<<n>> : n \in 0..(MaxQueue + 1)}

\* the call supplies a track the queue already holds, or the same track twice
SuppliesHeld(p, arg) ==
    \/ \E i \in 1..Len(arg.items) : arg.items[i] = p.current \/ arg.items[i] \in Range(p.queue)
    \/ \E i, j \in 1..Len(arg.items) : i # j /\ arg.items[i] = arg.items[j]

(***************************************************************************)
(* Initial state: Player and Queue as constructed, the Node as constructed *)
(***************************************************************************)
\* new Player(options): the fields as declared, then setVolume(options.volume ?? 100).
\* volume is the option, <<>> when it is not given.
NewPlayer(volume, voiceChannelId) ==
    SetVolume([queue |-> <<>>, current |-> Null, previous |-> Null,
               trackRepeat |-> FALSE, queueRepeat |-> FALSE,
               playing |-> FALSE, paused |-> FALSE,
               shufflePlay |-> FALSE, volume |-> 0, position |-> <<0>>,
               voiceState |-> NoVoiceState, voiceChannelId |-> voiceChannelId,
               state |-> "DISCONNECTED", calls |-> <<>>,
               resolving |-> <<>>, out |-> <<>>],
              IF volume = <<>> THEN <<DefaultVolume>> ELSE volume)

PlayerInit == player = Begin(NewPlayer(<<>>, Null))

\* the last step: its operation, its argument when that is one string, whether
\* it handed over the track current refers to, and its argument when that is
\* a record of strings
NoData == [none |-> Null]
LastInit == last = [op |-> "init", arg |-> Null, held |-> FALSE, data |-> NoData]

Bounded(p) == Len(p.queue) <= MaxQueue /\ Len(p.resolving) <= MaxResolving
Step(op, arg) == last' = [op |-> op, arg |-> arg, held |-> FALSE, data |-> NoData]
StepData(op, data) == last' = [op |-> op, arg |-> Null, held |-> FALSE, data |-> data]

(***************************************************************************)
(* Actions of the playback session                                         *)
(***************************************************************************)
\* full: the step keeps the arguments of the call
AddStep(args, offsets, full) ==
    \E arg \in args, offset \in offsets :
        /\ player' = QueueAdd(Begin(player), arg, offset)
        /\ Bounded(player')
        /\ last' = [op |-> "add", arg |-> Null, held |-> SuppliesHeld(player, arg),
                    data |-> IF full
                             THEN [arr |-> arg.arr, items |-> arg.items, offset |-> offset]
                             ELSE NoData]
        /\ UNCHANGED <<autoPlay, node, retryAmount, manager, resolver>>

RemoveStep(starts, ends) ==
    \E start \in starts, end \in ends :
        /\ player' = QueueRemove(Begin(player), start, end)
        /\ Step("remove", Null)
        /\ UNCHANGED <<autoPlay, node, retryAmount, manager, resolver>>

\* player.queue.add / player.queue.remove with every shape of argument
DoQueueAdd == AddStep(AddArgs, Offsets, TRUE)
DoQueueRemove == RemoveStep(Positions, Ends)

\* the host filling and trimming the queue of a session
HostQueueAdd == AddStep(HostAddArgs, {<<>>, <<0>>}, FALSE)
HostQueueRemove == RemoveStep({0}, {<<>>})

DoSetTrackRepeat ==
    \E b \in BOOLEAN :
        /\ player' = SetTrackRepeat(Begin(player), b)
        /\ Step("setTrackRepeat", IF b THEN "true" ELSE "false")
        /\ UNCHANGED <<autoPlay, node, retryAmount, manager, resolver>>

DoSetQueueRepeat ==
    \E b \in BOOLEAN :
        /\ player' = SetQueueRepeat(Begin(player), b)
        /\ Step("setQueueRepeat", IF b THEN "true" ELSE "false")
        /\ UNCHANGED <<autoPlay, node, retryAmount, manager, resolver>>

DoPause ==
    \E b \in BOOLEAN :
        /\ player' = Pause(Begin(player), b)
        /\ Step("pause", IF b THEN "true" ELSE "false")
        /\ UNCHANGED <<autoPlay, node, retryAmount, manager, resolver>>

Moved(q, r) == IF q = r THEN "kept" ELSE "moved"

\* the host fills the queue with tracks of earlier searches
ShuffleAdd ==
    \E t \in Tracks :
        /\ player' = QueueAdd(Begin(player), [arr |-> FALSE, items |-> <<t>>], <<>>)
        /\ Len(player'.queue) <= MaxShuffled
        /\ Step("add", Null)
        /\ UNCHANGED <<autoPlay, node, retryAmount, manager, resolver>>

DoShuffle ==
    \E r \in ShuffleResults(player.queue) :
        /\ player' = [Begin(player) EXCEPT !.queue = r]
        /\ Step("shuffle", Moved(player.queue, r))
        /\ UNCHANGED <<autoPlay, node, retryAmount, manager, resolver>>

DoUnshuffle ==
    \E r \in UnshuffleResults(player.queue) :
        /\ player' = [Begin(player) EXCEPT !.queue = r]
        /\ Step("unshuffle", Moved(player.queue, r))
        /\ UNCHANGED <<autoPlay, node, retryAmount, manager, resolver>>

\* Player.setShufflePlay; full: the step keeps the order the queue had
SetShufflePlayStep(full) ==
    \E enabled \in BOOLEAN :
        \E r \in IF enabled THEN ShuffleResults(player.queue) ELSE UnshuffleResults(player.queue) :
            /\ player' = [Begin(player) EXCEPT !.shufflePlay = enabled, !.queue = r]
            /\ last' = [op |-> IF enabled THEN "shuffle" ELSE "unshuffle",
                        arg |-> Moved(player.queue, r), held |-> FALSE,
                        data |-> IF full
                                 THEN [enabled |-> enabled,
                                       before |-> IF enabled THEN player.queue ELSE <<>>]
                                 ELSE NoData]
            /\ UNCHANGED <<autoPlay, node, retryAmount, manager, resolver>>
DoSetShufflePlay == SetShufflePlayStep(FALSE)
ToggleShufflePlay == SetShufflePlayStep(TRUE)

\* the host queues resolved tracks of earlier searches, at the end or at the front
ToggleAdd ==
    AddStep({[arr |-> FALSE, items |-> <<t>>] : t \in ResolvedTracks}, {<<>>, <<0>>}, FALSE)

\* the numbers the host hands to setVolume and seek; <<>> is NaN
VolumeInputs == {<<>>} \cup {<<n>> : n \in {-1, 0, 50, 1000, 1001}}
SeekInputs == {<<>>} \cup {<<n>> : n \in -1..4}

DoSetVolume ==
    \E volume \in VolumeInputs :
        /\ player' = SetVolume(Begin(player), volume)
        /\ Step("setVolume", volume)
        /\ UNCHANGED <<autoPlay, node, retryAmount, manager, resolver>>

DoSeek ==
    \E position \in SeekInputs :
        /\ player' = Seek(Begin(player), position)
        /\ Step("seek", position)
        /\ UNCHANGED <<autoPlay, node, retryAmount, manager, resolver>>

OnTrackStart ==
    /\ player' = TrackStart(Begin(player))
    /\ Step("trackStart", Null)
    /\ UNCHANGED <<autoPlay, node, retryAmount, manager, resolver>>

TrackEndStep(reasons) ==
    \E reason \in reasons :
        /\ player' = TrackEnd(Begin(player), reason)
        /\ Bounded(player')
        /\ Step("trackEnd", reason)
        /\ UNCHANGED <<autoPlay, node, retryAmount, manager, resolver>>
OnTrackEnd == TrackEndStep(Reasons)

\* a track that played to its end, was stopped, or failed to load
OnTrackOver == TrackEndStep({"finished", "stopped", "LOAD_FAILED"})

OnResolved ==
    \E i \in 1..Len(player.resolving) :
        /\ player' = PlayResolved(Begin(player), i)
        /\ Step("resolved", Null)
        /\ UNCHANGED <<autoPlay, node, retryAmount, manager, resolver>>

OnRejected ==
    \E i \in 1..Len(player.resolving) :
        /\ player' = PlayRejected(Begin(player), i)
        /\ Bounded(player')
        /\ Step("rejected", Null)
        /\ UNCHANGED <<autoPlay, node, retryAmount, manager, resolver>>

\* the host calls player.play() or player.play(track)
PlayStep(tracks) ==
    \E t \in tracks :
        /\ player' = IF t = Absent THEN Play(Begin(player)) ELSE PlayTrack(Begin(player), t)
        /\ Bounded(player')
        /\ Step("play", t)
        /\ UNCHANGED <<autoPlay, node, retryAmount, manager, resolver>>
DoPlay == PlayStep({Absent} \cup HostTracks)

\* a session of resolved tracks only: nothing play() has to await
ResolvedAdd == AddStep({[arr |-> FALSE, items |-> <<t>>] : t \in {"A", "B"}}, {<<>>}, FALSE)
ResolvedPlay == PlayStep({Absent, "A"})

\* the host calls player.stop() or player.stop(amount)
DoStop ==
    \E amount \in {<<>>} \cup {<<n>> : n \in 1..(MaxQueue + 1)} :
        /\ player' = Stop(Begin(player), amount)
        /\ Step("stop", IF amount = <<>> THEN Absent ELSE ToString(amount[1]))
        /\ UNCHANGED <<autoPlay, node, retryAmount, manager, resolver>>

\* the host calls player.queue.clear()
DoClear ==
    /\ player' = Clear(Begin(player))
    /\ Step("clear", Null)
    /\ UNCHANGED <<autoPlay, node, retryAmount, manager, resolver>>

(***************************************************************************)
(* Node: connection lifecycle.                                             *)
(*                                                                         *)
(* node.socket is the readyState of the socket the node refers to (Null    *)
(* when it refers to none).  A socket the node no longer refers to but     *)
(* whose listeners are still bound to the node is a stray one;             *)
(* strayConnecting and strayOpen count them by readyState.  A socket that  *)
(* is closed, or whose listeners were removed, calls no handler any more   *)
(* and is not kept.  reconnectTimeout is the timer handle: "pending",      *)
(* "done" (fired or cleared) or Null (never set); lostTimers counts the    *)
(* pending timers whose handle was overwritten by a later setTimeout.      *)
(* players maps each guild to "none", "bound" (in manager.players, bound   *)
(* to this node) or "destroying" (Player.destroy() running).               *)
(***************************************************************************)
Guilds == {"g1"}
NormalClosure == 1000
DefaultRetryAmount == 5

NodeEmit(n, name) == [n EXCEPT !.out = Append(@, name)]

\* Node.connected
Connected(n) == n.socket = "OPEN"

\* Node.connect
Connect(n) ==
    IF Connected(n) THEN n
    ELSE [n EXCEPT !.socket = "CONNECTING",
                   !.strayConnecting = IF n.socket = "CONNECTING" THEN @ + 1 ELSE @,
                   !.out = Append(@, "socket")]

\* clearTimeout(this.reconnectTimeout)
ClearReconnectTimeout(n) ==
    [n EXCEPT !.reconnectTimeout = IF @ = "pending" THEN "done" ELSE @]

\* Player.destroy() up to its first await, for every player of the node
DestroyPlayers(n) ==
    [n EXCEPT !.players = [g \in Guilds |-> IF @[g] = "bound" THEN "destroying" ELSE @[g]]]

\* Node.destroy, with the Manager.destroyNode it ends with (whose nested
\* node.destroy() returns at once: the socket is null by then)
Destroy(n) ==
    IF ~Connected(n) THEN n
    ELSE LET d == NodeEmit(ClearReconnectTimeout(
                      [DestroyPlayers(n) EXCEPT !.socket = Null, !.reconnectAttempts = 1]),
                      "nodeDestroy")
         IN [d EXCEPT !.inPool = FALSE]

\* Manager.destroyNode
DestroyNode(n) ==
    IF ~n.inPool THEN n ELSE [Destroy(n) EXCEPT !.inPool = FALSE]

\* Node.reconnect: setTimeout(callback, retryDelay)
Reconnect(n) ==
    [n EXCEPT !.lostTimers = IF n.reconnectTimeout = "pending" THEN @ + 1 ELSE @,
              !.reconnectTimeout = "pending"]

\* the callback Node.reconnect schedules
ReconnectCallback(n) ==
    IF n.reconnectAttempts >= retryAmount
    THEN Destroy(NodeEmit(n, "nodeError"))
    ELSE IF n.socket = Null
         THEN NodeEmit(n, "TypeError")
         ELSE LET c == Connect(NodeEmit([n EXCEPT !.socket = Null], "nodeReconnect"))
              IN [c EXCEPT !.reconnectAttempts = @ + 1]

\* Node.open
Open(n) == NodeEmit(ClearReconnectTimeout(n), "nodeConnect")

\* Node.close
Close(n, code, reason) ==
    LET e == NodeEmit(n, "nodeDisconnect")
    IN IF code # NormalClosure \/ reason # "destroy" THEN Reconnect(e) ELSE e

\* Node.error
Error(n) == NodeEmit(n, "nodeError")

NodeFields ==
    [socket |-> Null, sessionId |-> Null, strayConnecting |-> 0, strayOpen |-> 0,
     reconnectTimeout |-> Null, lostTimers |-> 0, reconnectAttempts |-> 1,
     inPool |-> TRUE, players |-> [g \in Guilds |-> "none"],
     destroyCalled |-> FALSE, everOpened |-> FALSE, out |-> <<>>]
NodeInit == node = NodeFields

NodeBegin(n) == [n EXCEPT !.out = <<>>]
NodeBounded(n) ==
    /\ n.strayConnecting + n.strayOpen <= MaxStray
    /\ n.lostTimers <= MaxLostTimers
NodeStep(op, arg) ==
    /\ NodeBounded(node')
    /\ Step(op, arg)
    /\ UNCHANGED <<player, autoPlay, retryAmount, manager, resolver>>

\* 1006 is the code ws reports for a connection that ended without a close frame
AbnormalClose == <<1006, "">>
CloseInputs == {<<NormalClosure, "destroy">>, <<NormalClosure, "">>, AbnormalClose}

CloseTag(c) ==
    IF c[1] = NormalClosure THEN (IF c[2] = "destroy" THEN "normal-destroy" ELSE "normal")
    ELSE "abnormal"

(***************************************************************************)
(* Actions of the node                                                     *)
(***************************************************************************)
\* the host (or Manager.init) calls node.connect()
HostConnect ==
    /\ node' = [Connect(NodeBegin(node)) EXCEPT !.destroyCalled = FALSE]
    /\ NodeStep("connect", Null)

\* the host calls node.destroy()
HostDestroy ==
    /\ node' = [Destroy(NodeBegin(node)) EXCEPT !.destroyCalled = TRUE]
    /\ NodeStep("destroy", Null)

\* the host calls manager.destroyNode(identifier)
HostDestroyNode ==
    /\ node' = [DestroyNode(NodeBegin(node)) EXCEPT !.destroyCalled = TRUE]
    /\ NodeStep("destroyNode", Null)

\* the host creates a player on this node: new Player({guildId, node})
HostCreatePlayer ==
    \E g \in Guilds :
        /\ node.players[g] = "none"
        /\ node.inPool
        /\ node' = [NodeBegin(node) EXCEPT !.players[g] = "bound"]
        /\ NodeStep("createPlayer", Null)

\* Player.destroy() of a player the node is destroying runs to its end
PlayerDestroyed ==
    \E g \in Guilds :
        /\ node.players[g] = "destroying"
        /\ node' = NodeEmit([NodeBegin(node) EXCEPT !.players[g] = "none"], "playerDestroy")
        /\ NodeStep("playerDestroyed", Null)

\* Player.destroy() of a player the node is destroying rejects: its pause or its
\* delete call failed, so the player is never taken out of manager.players
PlayerDestroyFailed ==
    \E g \in Guilds :
        /\ node.players[g] = "destroying"
        /\ node' = NodeEmit([NodeBegin(node) EXCEPT !.players[g] = "bound"], "unhandledRejection")
        /\ NodeStep("playerDestroyFailed", Null)

\* the node's socket opens
SocketOpen ==
    /\ node.socket = "CONNECTING"
    /\ node' = Open([NodeBegin(node) EXCEPT !.socket = "OPEN", !.everOpened = TRUE])
    /\ NodeStep("open", Null)

\* the node's socket fails to connect: 'error', then 'close'
SocketFail ==
    /\ node.socket = "CONNECTING"
    /\ node' = Close(Error([NodeBegin(node) EXCEPT !.socket = "CLOSED"]), AbnormalClose[1], AbnormalClose[2])
    /\ NodeStep("fail", Null)

\* the node's open socket closes
SocketClose ==
    \E c \in CloseInputs :
        /\ node.socket = "OPEN"
        /\ node' = Close([NodeBegin(node) EXCEPT !.socket = "CLOSED"], c[1], c[2])
        /\ NodeStep("close", CloseTag(c))

\* the same three events on a stray socket
StrayOpen ==
    /\ node.strayConnecting > 0
    /\ node' = Open([NodeBegin(node) EXCEPT !.strayConnecting = @ - 1, !.strayOpen = @ + 1, !.everOpened = TRUE])
    /\ NodeStep("strayOpen", Null)

StrayFail ==
    /\ node.strayConnecting > 0
    /\ node' = Close(Error([NodeBegin(node) EXCEPT !.strayConnecting = @ - 1]), AbnormalClose[1], AbnormalClose[2])
    /\ NodeStep("strayFail", Null)

StrayClose ==
    \E c \in CloseInputs :
        /\ node.strayOpen > 0
        /\ node' = Close([NodeBegin(node) EXCEPT !.strayOpen = @ - 1], c[1], c[2])
        /\ NodeStep("strayClose", CloseTag(c))

\* the reconnect timer the node holds the handle of fires
TimerFires ==
    /\ node.reconnectTimeout = "pending"
    /\ node' = ReconnectCallback([NodeBegin(node) EXCEPT !.reconnectTimeout = "done"])
    /\ NodeStep("timer", Null)

\* a reconnect timer whose handle was overwritten fires
LostTimerFires ==
    /\ node.lostTimers > 0
    /\ node' = ReconnectCallback([NodeBegin(node) EXCEPT !.lostTimers = @ - 1])
    /\ NodeStep("timer", Null)

(***************************************************************************)
(* Manager.updateVoiceState.  A packet is what the host forwards from the  *)
(* gateway: t is its type (Absent when the host passes the bare payload),  *)
(* kind tells which keys its d has: "server" (token, endpoint), "state"    *)
(* (session_id, user_id, channel_id) or "none".                            *)
(***************************************************************************)
ClientId == "me"

VoicePackets ==
    {[t |-> t, kind |-> "server", guild |-> g, token |-> tk, endpoint |-> e,
      user |-> Absent, channel |-> Absent, session |-> Absent] :
        t \in {"VOICE_SERVER_UPDATE"}, g \in Guilds \cup {"g2"}, tk \in {"tk1", "tk2"},
        e \in {"e1", Null}}
    \cup
    {[t |-> t, kind |-> "state", guild |-> g, token |-> Absent, endpoint |-> Absent,
      user |-> u, channel |-> c, session |-> ss] :
        t \in {"VOICE_STATE_UPDATE", Absent}, g \in Guilds, u \in {ClientId, "other"},
        c \in {"c1", "c2", Null}, ss \in {"s1", "s2"}}
    \cup
    {[t |-> t, kind |-> k, guild |-> g, token |-> Absent, endpoint |-> Absent,
      user |-> Absent, channel |-> Absent, session |-> Absent] :
        t \in {"GUILD_CREATE", "VOICE_STATE_UPDATE"}, k \in {"none"}, g \in Guilds}
    \cup
    {[t |-> t, kind |-> "server", guild |-> g, token |-> tk, endpoint |-> e,
      user |-> Absent, channel |-> Absent, session |-> Absent] :
        t \in {"GUILD_CREATE"}, g \in Guilds, tk \in {"tk1"}, e \in {"e1"}}

\* ['token', 'endpoint', 'sessionId'].every(key => key in player.voiceState)
HasCredentials(vs) == vs.token # Absent /\ vs.endpoint # Absent /\ vs.sessionId # Absent

\* the packet's effect on the player, before the credentials are looked at
ApplyVoicePacket(p, data) ==
    IF data.kind = "server"
    THEN [p EXCEPT !.voiceState.token = data.token, !.voiceState.endpoint = data.endpoint]
    ELSE IF data.channel # Null
         THEN LET m == IF p.voiceChannelId # data.channel
                       THEN Emit(p, "playerMove", p.voiceChannelId) ELSE p
              IN [m EXCEPT !.voiceState.sessionId = data.session,
                           !.voiceChannelId = data.channel]
         ELSE Pause([Emit(p, "playerDisconnect", p.voiceChannelId)
                        EXCEPT !.voiceChannelId = Null, !.voiceState = NoVoiceState],
                    TRUE)

\* A plausible slip: the voice states of every member are taken for the bot's.
UpdateVoiceStateAnyUser(p, data) ==
    IF data.t # Absent /\ data.t \notin {"VOICE_STATE_UPDATE", "VOICE_SERVER_UPDATE"} THEN p
    ELSE IF data.kind = "none" THEN p
    ELSE IF data.guild \notin Guilds THEN p
    ELSE LET a == ApplyVoicePacket(p, data)
         IN IF HasCredentials(a.voiceState) THEN UpdatePlayer(a, "voice", Null) ELSE a

\* Manager.updateVoiceState; the only player is the one of guild "g1"
UpdateVoiceState(p, data) ==
    IF data.t # Absent /\ data.t \notin {"VOICE_STATE_UPDATE", "VOICE_SERVER_UPDATE"} THEN p
    ELSE IF data.kind = "none" THEN p
    ELSE IF data.guild \notin Guilds THEN p
    ELSE IF data.kind = "state" /\ data.user # ClientId THEN p
    ELSE LET a == ApplyVoicePacket(p, data)
         IN IF HasCredentials(a.voiceState) THEN UpdatePlayer(a, "voice", Null) ELSE a

\* the host forwards a gateway packet
OnVoicePacket ==
    \E data \in VoicePackets :
        /\ player' = UpdateVoiceState(Begin(player), data)
        /\ StepData("voice", [kind |-> data.kind, user |-> data.user, channel |-> data.channel])
        /\ UNCHANGED <<autoPlay, node, retryAmount, manager, resolver>>

(***************************************************************************)
(* Manager: the node pool, and the REST calls of its nodes.                *)
(*                                                                         *)
(* manager.nodes maps each identifier to the node's connected flag, its    *)
(* calls counter and the number of its requests the transport has not      *)
(* answered yet.  NodeOrder is the insertion order of the pool.            *)
(***************************************************************************)
NodeOrder == <<"n1", "n2">>
NodeIds == Range(NodeOrder)

ManagerEmit(m, what, id) == [m EXCEPT !.out = Append(@, <<what, id>>)]
ManagerBegin(m) == [m EXCEPT !.out = <<>>]

\* Collection.filter(node => node.connected), in insertion order
RECURSIVE ConnectedNodes(_, _)
ConnectedNodes(m, order) ==
    IF order = <<>> THEN <<>>
    ELSE (IF m.nodes[Head(order)].connected THEN <<Head(order)>> ELSE <<>>)
         \o ConnectedNodes(m, Tail(order))

\* Collection.sort((a, b) => b.calls - a.calls): a stable sort, so a node goes
\* behind every node that the comparator does not put after it
RECURSIVE SortByCalls(_, _)
SortByCalls(m, ids) ==
    IF ids = <<>> THEN <<>>
    ELSE LET sorted == SortByCalls(m, SubSeq(ids, 1, Len(ids) - 1))
             x == ids[Len(ids)]
             k == Cardinality({i \in 1..Len(sorted) :
                                 m.nodes[x].calls - m.nodes[sorted[i]].calls <= 0})
         IN SubSeq(sorted, 1, k) \o <<x>> \o SubSeq(sorted, k + 1, Len(sorted))

\* Manager.leastUsedNodes
LeastUsedNodes(m) == SortByCalls(m, ConnectedNodes(m, m.order))

\* the cpu statistics a node is constructed with, and the ones 'stats' frames
\* bring: <<>> is a frame that has no cpu member, and systemLoad is counted in
\* quarters of a core
InitialCpu == <<[cores |-> 0, systemLoad |-> 0]>>
StatsCpus == {<<>>, <<[cores |-> 2, systemLoad |-> 1]>>, <<[cores |-> 1, systemLoad |-> 1]>>}

\* (stats.cpu.systemLoad / stats.cpu.cores) * 100, or 0 when stats.cpu is not
\* there: the quotient of two numbers as a fraction, 0 / 0 as NaN, x / 0 as
\* Infinity
Load(cpu) ==
    IF cpu = <<>> THEN [kind |-> "number", num |-> 0, den |-> 1]
    ELSE IF cpu[1].cores # 0
    THEN [kind |-> "number", num |-> cpu[1].systemLoad * 100, den |-> cpu[1].cores]
    ELSE IF cpu[1].systemLoad = 0 THEN [kind |-> "NaN", num |-> 0, den |-> 0]
    ELSE [kind |-> "Infinity", num |-> 1, den |-> 0]

\* the sign of aload - bload as Array.prototype.sort reads it: NaN counts as 0
CompareLoad(m, a, b) ==
    LET aload == Load(m.nodes[a].cpu)
        bload == Load(m.nodes[b].cpu)
    IN IF aload.kind = "NaN" \/ bload.kind = "NaN" THEN 0
       ELSE IF aload.kind = "Infinity" /\ bload.kind = "Infinity" THEN 0
       ELSE IF aload.kind = "Infinity" THEN 1
       ELSE IF bload.kind = "Infinity" THEN -1
       ELSE IF aload.num * bload.den < bload.num * aload.den THEN -1
       ELSE IF aload.num * bload.den > bload.num * aload.den THEN 1
       ELSE 0

\* Collection.sort((a, b) => aload - bload): a stable sort; the pool of the
\* model holds at most two nodes, and on two elements every comparator is a
\* consistent one
RECURSIVE SortByLoad(_, _)
SortByLoad(m, ids) ==
    IF ids = <<>> THEN <<>>
    ELSE LET sorted == SortByLoad(m, SubSeq(ids, 1, Len(ids) - 1))
             x == ids[Len(ids)]
             k == Cardinality({i \in 1..Len(sorted) : CompareLoad(m, sorted[i], x) <= 0})
         IN SubSeq(sorted, 1, k) \o <<x>> \o SubSeq(sorted, k + 1, Len(sorted))

\* Collection.first(): the first value, or undefined
First(nodes) == IF nodes = <<>> THEN <<>> ELSE <<Head(nodes)>>

\* Manager.leastLoadNodes
LeastLoadNodes(m) == SortByLoad(m, ConnectedNodes(m, m.order))

\* Node.makeRequest up to "await this.http.request(options)"
RequestSent(m, id) == [m EXCEPT !.nodes[id].requests = @ + 1]

\* Node.makeRequest from the transport's response on: calls++, then the body is
\* parsed; a body that is not JSON makes the call return null
RequestAnswered(m, id, body) ==
    ManagerEmit([m EXCEPT !.nodes[id].requests = @ - 1, !.nodes[id].calls = @ + 1],
                IF body = "json" THEN "return data" ELSE "return null", id)

\* Node.makeRequest when http.request rejects: the caller's catch wraps the error
RequestRejected(m, id) ==
    ManagerEmit([m EXCEPT !.nodes[id].requests = @ - 1], "throw", id)

\* Manager.search up to "await node.loadTracks(search)"
Search(m) ==
    LET nodes == LeastUsedNodes(m)
    IN IF nodes = <<>> THEN ManagerEmit(m, "throw No available nodes.", Null)
       ELSE RequestSent(ManagerEmit(m, "loadTracks", Head(nodes)), Head(nodes))

\* the node search() sent its call to, Null when it sent none
SearchedOn(m) ==
    IF \E i \in 1..Len(m.out) : m.out[i][1] = "loadTracks"
    THEN (CHOOSE e \in Range(m.out) : e[1] = "loadTracks")[2]
    ELSE Null

\* new Node(options): the fields of a node that is not connected yet
NewNode ==
    [connected |-> FALSE, calls |-> 0, requests |-> 0, cpu |-> InitialCpu, sessionId |-> Absent]

\* the key of the node pool: options.identifier || options.host
NodeKey(options) ==
    IF options.identifier # Absent THEN options.identifier ELSE options.host

\* new Node(options), Manager.createNode: the node the pool has under the key
\* is returned as it is, another one is registered and announced
CreateNode(m, options) ==
    LET key == NodeKey(options)
    IN IF key \in Range(m.order) THEN m
       ELSE ManagerEmit([m EXCEPT !.nodes[key] = NewNode, !.order = Append(@, key)],
                        "nodeCreate", key)

\* new Player(options), Manager.create: the player the pool has for the guild
\* is returned as it is; another one takes the node options.node names, or the
\* first of leastLoadNodes, is registered and announced, and setVolume sends
\* its volume to the node
CreatePlayerAlways(m, options) ==
    LET pinned == IF options.node \in Range(m.order) THEN <<options.node>> ELSE <<>>
        chosen == IF pinned # <<>> THEN pinned ELSE First(LeastLoadNodes(m))
    IN IF chosen = <<>> THEN ManagerEmit(m, "throw No available nodes.", options.guildId)
       ELSE RequestSent(
                ManagerEmit(ManagerEmit([m EXCEPT !.players[options.guildId] = chosen[1]],
                                        "playerCreate", options.guildId),
                            "updatePlayer", chosen[1]),
                chosen[1])
CreatePlayer(m, options) ==
    IF m.players[options.guildId] # Null THEN m
    ELSE LET pinned == IF options.node \in Range(m.order) THEN <<options.node>> ELSE <<>>
             chosen == IF pinned # <<>> THEN pinned ELSE First(LeastLoadNodes(m))
         IN IF chosen = <<>> THEN ManagerEmit(m, "throw No available nodes.", options.guildId)
            ELSE RequestSent(
                     ManagerEmit(ManagerEmit([m EXCEPT !.players[options.guildId] = chosen[1]],
                                             "playerCreate", options.guildId),
                                 "updatePlayer", chosen[1]),
                     chosen[1])

\* Node.message, op 'stats': this.stats = { ...payload }
Stats(m, id, cpu) == [m EXCEPT !.nodes[id].cpu = cpu]

\* the pool after new Manager({ nodes }): one node per entry, none connected,
\* and no player
NewManager(order) ==
    [nodes |-> [id \in NodeIds |-> NewNode],
     order |-> order,
     players |-> [g \in Guilds |-> Null],
     destroying |-> {},
     out |-> <<>>]

\* Node.message, op 'ready': this.sessionId = payload.sessionId
Ready(m, id, sessionId) == [m EXCEPT !.nodes[id].sessionId = sessionId]

\* the session id the server of a node hands out
SessionOf(id) == IF id = "n1" THEN "s1" ELSE "s2"

\* Collection.delete(identifier) on the pool's order of insertion
RECURSIVE Without(_, _)
Without(order, id) ==
    IF order = <<>> THEN <<>>
    ELSE (IF Head(order) = id THEN <<>> ELSE <<Head(order)>>) \o Without(Tail(order), id)

\* manager.players.filter(p => p.node.sessionId === this.sessionId)
PlayersOfSession(m, id) ==
    {g \in Guilds : m.players[g] # Null
                     /\ m.nodes[m.players[g]].sessionId = m.nodes[id].sessionId}

\* Node.destroy as the pool sees it: player.destroy() is called on every
\* selected player (its state becomes 'DESTROYING' at once), the socket is
\* closed and Manager.destroyNode takes the node out of the pool
NodeDestroy(m, id) ==
    IF ~m.nodes[id].connected THEN m
    ELSE ManagerEmit([m EXCEPT !.destroying = @ \cup PlayersOfSession(m, id),
                               !.nodes[id].connected = FALSE,
                               !.order = Without(@, id)],
                     "nodeDestroy", id)

\* Player.destroy from its last await on: the player leaves the pool
PlayerRemoved(m, g) ==
    ManagerEmit([m EXCEPT !.players[g] = Null, !.destroying = @ \ {g}], "playerDestroy", g)

ManagerInit == manager = NewManager(NodeOrder)

ManagerBounded(m) ==
    \A id \in NodeIds : m.nodes[id].calls <= MaxCalls /\ m.nodes[id].requests <= MaxRequests

ManagerStep(op, arg) ==
    /\ ManagerBounded(manager')
    /\ Step(op, arg)
    /\ UNCHANGED <<player, autoPlay, node, retryAmount, resolver>>

(***************************************************************************)
(* Actions of the node pool                                                *)
(***************************************************************************)
\* a node's socket becomes OPEN / stops being OPEN
NodeConnects ==
    \E id \in Range(manager.order) :
        /\ ~manager.nodes[id].connected
        /\ manager' = [ManagerBegin(manager) EXCEPT !.nodes[id].connected = TRUE]
        /\ ManagerStep("connects", id)

NodeDisconnects ==
    \E id \in Range(manager.order) :
        /\ manager.nodes[id].connected
        /\ manager' = [ManagerBegin(manager) EXCEPT !.nodes[id].connected = FALSE]
        /\ ManagerStep("disconnects", id)

\* the 'ready' frame of a connected node
OnReady ==
    \E id \in Range(manager.order) :
        /\ manager.nodes[id].connected
        /\ manager' = Ready(ManagerBegin(manager), id, SessionOf(id))
        /\ ManagerStep("ready", id)

\* the host calls node.destroy()
DoNodeDestroy ==
    \E id \in Range(manager.order) :
        /\ manager' = NodeDestroy(ManagerBegin(manager), id)
        /\ ManagerStep("nodeDestroy", id)

\* a Player.destroy() that was called runs to its end
OnPlayerRemoved ==
    \E g \in manager.destroying :
        /\ manager' = PlayerRemoved(ManagerBegin(manager), g)
        /\ ManagerStep("playerRemoved", g)

\* the host creates the player of a guild on a node it names
PinPlayer ==
    \E options \in [guildId : Guilds, node : Range(manager.order)] :
        /\ manager' = CreatePlayer(ManagerBegin(manager), options)
        /\ ManagerBounded(manager')
        /\ StepData("createPlayer",
                    [guildId |-> options.guildId,
                     registered |-> IF manager.players[options.guildId] # Null
                                    THEN "existing" ELSE "new",
                     node |-> options.node])
        /\ UNCHANGED <<player, autoPlay, node, retryAmount, resolver>>

\* the host calls manager.search(query)
DoSearch ==
    /\ manager' = Search(ManagerBegin(manager))
    /\ ManagerStep("search", SearchedOn(manager'))

\* any other REST call of a node: updatePlayer, destroyPlayer, getInfo, ...
DoRequest ==
    \E id \in Range(manager.order) :
        /\ manager' = RequestSent(ManagerBegin(manager), id)
        /\ ManagerStep("request", id)

\* the transport answers a request, with a JSON body or another one
OnResponse ==
    \E id \in Range(manager.order), body \in {"json", "text"} :
        /\ manager.nodes[id].requests > 0
        /\ manager' = RequestAnswered(ManagerBegin(manager), id, body)
        /\ ManagerStep(body, id)

\* the transport fails a request: connection refused, timeout
OnRequestFailure ==
    \E id \in Range(manager.order) :
        /\ manager.nodes[id].requests > 0
        /\ manager' = RequestRejected(ManagerBegin(manager), id)
        /\ ManagerStep("failure", id)

\* a 'stats' frame of a connected node, with its cpu member or without one
OnStats ==
    \E id \in Range(manager.order), cpu \in StatsCpus :
        /\ manager.nodes[id].connected
        /\ manager' = Stats(ManagerBegin(manager), id, cpu)
        /\ ManagerStep("stats", id)

\* the options the host constructs nodes and players with
NodeOptions == [identifier : {Absent} \cup NodeIds, host : NodeIds]
PlayerOptions == [guildId : Guilds, node : {Absent} \cup NodeIds]

\* the host calls manager.createNode(options) or new Node(options)
DoCreateNode ==
    \E options \in NodeOptions :
        /\ manager' = CreateNode(ManagerBegin(manager), options)
        /\ ManagerBounded(manager')
        /\ StepData("createNode",
                    [key |-> NodeKey(options),
                     registered |-> IF NodeKey(options) \in Range(manager.order)
                                    THEN "existing" ELSE "new"])
        /\ UNCHANGED <<player, autoPlay, node, retryAmount, resolver>>

\* the host calls manager.create(options) or new Player(options)
DoCreatePlayer ==
    \E options \in PlayerOptions :
        /\ manager' = CreatePlayer(ManagerBegin(manager), options)
        /\ ManagerBounded(manager')
        /\ StepData("createPlayer",
                    [guildId |-> options.guildId,
                     registered |-> IF manager.players[options.guildId] # Null
                                    THEN "existing" ELSE "new",
                     node |-> options.node])
        /\ UNCHANGED <<player, autoPlay, node, retryAmount, resolver>>

(***************************************************************************)
(* TrackUtils.getClosestTrack.  A search result is a sequence of tracks,   *)
(* each with an author, a title and a duration; the chosen track is named  *)
(* by its index in the sequence, 0 when the call returns undefined.        *)
(***************************************************************************)
DurationTolerance == 1500

\* String.prototype.toLowerCase on the strings of the model
Lower(str) ==
    CASE str = "Y" -> "y"
      [] str = "Y - Topic" -> "y - topic"
      [] str = "Z" -> "z"
      [] str = "X" -> "x"
      [] str = "W" -> "w"
      [] OTHER -> str

\* `${author} - Topic`
Topic(author) ==
    CASE author = "Y" -> "Y - Topic"
      [] author = "y" -> "y - Topic"
      [] OTHER -> "? - Topic"

\* new RegExp(`^${escapeRegExp(name)}$`, 'i').test(str)
TestExact(name, str) == Lower(name) = Lower(str)

\* Array.prototype.find, as the index of the element found, 0 for undefined;
\* matching is the set of the indices whose element the callback accepts
Find(matching) ==
    IF matching = {} THEN 0 ELSE CHOOSE i \in matching : \A j \in matching : i <= j

\* the find callback for originalAudio
IsOriginalAudio(u, track) ==
    \/ TestExact(u.author, track.author)
    \/ TestExact(Topic(u.author), track.author)
    \/ TestExact(u.title, track.title)

\* the find callback for sameDuration
IsSameDuration(u, track) ==
    /\ track.duration >= u.duration - DurationTolerance
    /\ track.duration <= u.duration + DurationTolerance

\* A plausible slip: the duration hint is tried before the author hint.
GetClosestTrackByDurationFirst(u, res) ==
    IF res.loadType # "search" THEN [selected |-> 0, thrown |-> TRUE]
    ELSE LET indices == 1..Len(res.tracks)
             originalAudio ==
                 IF u.author # Absent
                 THEN Find({i \in indices : IsOriginalAudio(u, res.tracks[i])}) ELSE 0
             sameDuration ==
                 IF u.duration # 0
                 THEN Find({i \in indices : IsSameDuration(u, res.tracks[i])}) ELSE 0
         IN [selected |-> IF sameDuration # 0 THEN sameDuration
                          ELSE IF originalAudio # 0 THEN originalAudio
                          ELSE IF res.tracks = <<>> THEN 0 ELSE 1,
             thrown |-> FALSE]

\* TrackUtils.getClosestTrack from the search result on.  An absent author and an
\* absent or zero duration are falsy.
GetClosestTrack(u, res) ==
    IF res.loadType # "search" THEN [selected |-> 0, thrown |-> TRUE]
    ELSE LET indices == 1..Len(res.tracks)
             originalAudio ==
                 IF u.author # Absent
                 THEN Find({i \in indices : IsOriginalAudio(u, res.tracks[i])}) ELSE 0
             sameDuration ==
                 IF u.duration # 0
                 THEN Find({i \in indices : IsSameDuration(u, res.tracks[i])}) ELSE 0
         IN [selected |-> IF originalAudio # 0 THEN originalAudio
                          ELSE IF sameDuration # 0 THEN sameDuration
                          ELSE IF res.tracks = <<>> THEN 0 ELSE 1,
             thrown |-> FALSE]

\* the unresolved tracks handed in: title "X", with or without the hints
UnresolvedQueries ==
    [title : {"X"}, author : {"Y", Absent}, duration : {0, 3000}]

\* the tracks a search can return
FoundTracks == [author : {"y", "Y - Topic", "Z"}, title : {"x", "W"}, duration : {2000, 9000}]

RECURSIVE SeqsUpTo(_, _)
SeqsUpTo(S, n) ==
    IF n = 0 THEN {<<>>}
    ELSE LET shorter == SeqsUpTo(S, n - 1)
         IN shorter \cup {Append(q, x) : q \in {r \in shorter : Len(r) = n - 1}, x \in S}

SearchResults ==
    {[loadType |-> "search", tracks |-> tracks] : tracks \in SeqsUpTo(FoundTracks, MaxResults)}
    \cup {[loadType |-> lt, tracks |-> <<>>] : lt \in {"empty", "error", "track", "playlist"}}

\* no call of getClosestTrack is running
ResolverInit ==
    resolver = [unresolved |-> [title |-> "X", author |-> Absent, duration |-> 0],
                res |-> [loadType |-> "empty", tracks |-> <<>>],
                selected |-> 0, thrown |-> FALSE, settled |-> TRUE]

\* getClosestTrack(unresolved) was called and its search returned res
ResolverAwaits ==
    resolver \in {[unresolved |-> u, res |-> res, selected |-> 0, thrown |-> FALSE,
                   settled |-> FALSE] : u \in UnresolvedQueries, res \in SearchResults}

\* getClosestTrack runs from the search result to its end
DoGetClosestTrack ==
    /\ ~resolver.settled
    /\ LET outcome == GetClosestTrack(resolver.unresolved, resolver.res)
       IN resolver' = [resolver EXCEPT !.selected = outcome.selected,
                                       !.thrown = outcome.thrown,
                                       !.settled = TRUE]
    /\ Step("getClosestTrack", Null)
    /\ UNCHANGED <<player, autoPlay, node, retryAmount, manager>>

(***************************************************************************)
(* Node: the frames of the socket.                                         *)
(*                                                                         *)
(* The node is "n1" of the pool, and the player of guild "g1" is in        *)
(* manager.players while node.players["g1"] is not "none".                 *)
(***************************************************************************)
EventTypes ==
    {"TrackStartEvent", "TrackEndEvent", "TrackStuckEvent", "TrackExceptionEvent",
     "WebSocketClosedEvent"}

\* the members of a payload the handlers read; Absent is a missing member
Frame(op, type, guildId, detail) ==
    [op |-> op, type |-> type, guildId |-> guildId, detail |-> detail]
Frames ==
    {Frame(Absent, Absent, Absent, Absent), Frame("ready", Absent, Absent, "s1"),
     Frame("stats", Absent, Absent, Absent), Frame("pong", Absent, "g1", Absent)}
    \cup {Frame("playerUpdate", Absent, g, pos) : g \in {"g1", "g2"}, pos \in {"0", "1"}}
    \cup {Frame("event", "TrackEndEvent", "g1", reason) : reason \in Reasons}
    \cup {Frame("event", type, "g1", Absent) :
              type \in (EventTypes \ {"TrackEndEvent"}) \cup {"FooEvent"}}
    \cup {Frame("event", type, g, Absent) :
              type \in {"TrackStartEvent", "FooEvent"}, g \in {"g2", Absent}}

\* this.manager.players.get(guildId)
HasPlayer(n, guildId) == guildId \in Guilds /\ n.players[guildId] # "none"

\* A plausible slip: the handler moves on to the next queued track itself.
TrackStuckAdvances(p) ==
    Emit(Stop(ShiftCurrent(SetPrevious(p)), <<>>), "trackStuck", p.current)

\* Node.trackStuck, Node.trackError, Node.socketClosed
TrackStuck(p) == Emit(Stop(p, <<>>), "trackStuck", p.current)
TrackError(p) == Emit(Stop(p, <<>>), "trackError", p.current)
SocketClosed(p) == Emit(p, "socketClosed", Null)

\* what a handler leaves of the node, the pool and the player
Handled(n, m, p) == [node |-> n, manager |-> m, player |-> p]

\* A plausible slip: the event is dispatched before the player is looked up.
HandleEventAnyGuild(n, m, p, payload) ==
    IF payload.guildId = Absent THEN Handled(n, m, p)
    ELSE IF payload.type = "TrackStartEvent" THEN Handled(n, m, TrackStart(p))
    ELSE IF payload.type = "TrackEndEvent" THEN Handled(n, m, TrackEnd(p, payload.detail))
    ELSE IF payload.type = "TrackStuckEvent" THEN Handled(n, m, TrackStuck(p))
    ELSE IF payload.type = "TrackExceptionEvent" THEN Handled(n, m, TrackError(p))
    ELSE IF payload.type = "WebSocketClosedEvent" THEN Handled(n, m, SocketClosed(p))
    ELSE Handled(NodeEmit(n, "nodeError"), m, p)

\* Node.handleEvent
HandleEvent(n, m, p, payload) ==
    IF payload.guildId = Absent THEN Handled(n, m, p)
    ELSE IF ~HasPlayer(n, payload.guildId) THEN Handled(n, m, p)
    ELSE IF payload.type = "TrackStartEvent" THEN Handled(n, m, TrackStart(p))
    ELSE IF payload.type = "TrackEndEvent" THEN Handled(n, m, TrackEnd(p, payload.detail))
    ELSE IF payload.type = "TrackStuckEvent" THEN Handled(n, m, TrackStuck(p))
    ELSE IF payload.type = "TrackExceptionEvent" THEN Handled(n, m, TrackError(p))
    ELSE IF payload.type = "WebSocketClosedEvent" THEN Handled(n, m, SocketClosed(p))
    ELSE Handled(NodeEmit(n, "nodeError"), m, p)

\* Node.message
Message(n, m, p, payload) ==
    IF payload.op = Absent THEN Handled(n, m, p)
    ELSE LET raw == NodeEmit(n, "nodeRaw")
         IN IF payload.op = "stats" THEN Handled(raw, Stats(m, "n1", <<>>), p)
            ELSE IF payload.op = "playerUpdate"
            THEN Handled(raw, m,
                         IF HasPlayer(n, payload.guildId)
                         THEN [p EXCEPT !.position = IF payload.detail = "1" THEN <<1>> ELSE <<0>>]
                         ELSE p)
            ELSE IF payload.op = "event" THEN HandleEvent(raw, m, p, payload)
            ELSE IF payload.op = "ready"
            THEN Handled([raw EXCEPT !.sessionId = payload.detail], m, p)
            ELSE Handled(NodeEmit(raw, "nodeError"), m, p)

\* a frame arrives on the node's open socket
OnFrame(frames) ==
    \E payload \in frames :
        /\ Connected(node)
        /\ LET h == Message(NodeBegin(node), ManagerBegin(manager), Begin(player), payload)
           IN /\ node' = h.node
              /\ manager' = h.manager
              /\ player' = h.player
        /\ Bounded(player')
        /\ StepData("message",
                    [op |-> payload.op, type |-> payload.type, guildId |-> payload.guildId])
        /\ UNCHANGED <<autoPlay, retryAmount, resolver>>

\* Manager.destroy(guild): the player leaves the pool
ManagerDestroy ==
    \E g \in Guilds :
        /\ HasPlayer(node, g)
        /\ node' = [NodeBegin(node) EXCEPT !.players[g] = "none"]
        /\ NodeStep("managerDestroy", g)

\* the host creates the player of a guild it has no player object of
CreateFirstPlayer == PlayerInit /\ HostCreatePlayer

OnMessage == OnFrame(Frames)

\* 'event' frames: of the player's guild, of no guild, of a guild without a player
EventFrames ==
    {Frame("event", "TrackStartEvent", g, Absent) : g \in {"g1", "g2", Absent}}
    \cup {Frame("event", "TrackEndEvent", g, "finished") : g \in {"g1", "g2", Absent}}
    \cup {Frame("event", "TrackStuckEvent", "g2", Absent)}
OnEvent == OnFrame(EventFrames)

\* the host connects the node it constructed
FirstConnect == node.socket = Null /\ HostConnect

\* the host adds to the queue of the player it created
SessionQueueAdd == HasPlayer(node, "g1") /\ HostQueueAdd

\* a resolution play() awaits settles
SessionResolved == HasPlayer(node, "g1") /\ OnResolved

(***************************************************************************)
(* Player: connect, disconnect and destroy.                                *)
(*                                                                         *)
(* player.calls holds the disconnect() and destroy() calls that wait for   *)
(* the node to answer: a call waits at "pause" for the update-player call  *)
(* of pause(true), or at "delete" for the delete-player call.  An await of *)
(* a promise that is settled already goes on before any other event.       *)
(***************************************************************************)
\* this.manager.options.send(guildId, { op: 4, d: { channel_id, ... } })
Send(p, channel) == [p EXCEPT !.out = Append(@, <<"send", "op 4", channel>>)]

\* an asynchronous call returns, or rejects
Return(p, op) == [p EXCEPT !.out = Append(@, <<"return", op, Null>>)]
Reject(p, op) == [p EXCEPT !.out = Append(@, <<"reject", op, Null>>)]

Await(p, op, at) == [p EXCEPT !.calls = Append(@, [op |-> op, at |-> at])]
Settle(p, i) == [p EXCEPT !.calls = SubSeq(@, 1, i - 1) \o SubSeq(@, i + 1, Len(@))]

\* Player.connect
PlayerConnect(p) ==
    IF p.voiceChannelId = Null THEN Throw(p, "RangeError")
    ELSE [Send(p, p.voiceChannelId) EXCEPT !.state = "CONNECTED"]

\* Player.setVoiceChannelId
SetVoiceChannelId(p, channelId) == PlayerConnect([p EXCEPT !.voiceChannelId = channelId])

\* Player.destroy from "await this.node.destroyPlayer(this.guildId)" on
DestroyPlayer(p) ==
    Await([p EXCEPT !.out = Append(@, <<"destroyPlayer", Null, Null>>)], "destroy", "delete")

\* what follows a disconnect(): its caller goes on, its own call returns
AfterDisconnect(p, op) ==
    IF op = "destroy" THEN DestroyPlayer(p) ELSE Return(p, "disconnect")

\* Player.disconnect after "await this.pause(true)"
Disconnected(p) ==
    [Send(p, Null) EXCEPT !.voiceChannelId = Null, !.state = "DISCONNECTED"]

\* Player.disconnect, called by the host (op "disconnect") or by destroy
PlayerDisconnect(p, op) ==
    IF p.voiceChannelId = Null THEN AfterDisconnect(p, op)
    ELSE LET d == [p EXCEPT !.state = "DISCONNECTING"]
         IN IF d.paused \/ TotalSize(d) = 0
            THEN AfterDisconnect(Disconnected(Pause(d, TRUE)), op)
            ELSE Await(Pause(d, TRUE), op, "pause")

\* Player.destroy
PlayerDestroy(p, disconnect) ==
    LET d == [p EXCEPT !.state = "DESTROYING"]
    IN IF disconnect THEN PlayerDisconnect(d, "destroy") ELSE DestroyPlayer(d)

\* the update-player call of pause(true) is answered, or fails
PauseAnswered(p, i) == AfterDisconnect(Disconnected(Settle(p, i)), p.calls[i].op)
PauseRejected(p, i) == Reject(Settle(p, i), p.calls[i].op)

\* the delete-player call is answered, or fails
DeleteAnswered(p, i) == Return(Emit(Settle(p, i), "playerDestroy", Null), "destroy")
DeleteRejected(p, i) == Reject(Settle(p, i), "destroy")

\* the pool entry of the player, which is the one of guild "g1"
Registered(n) == HasPlayer(n, "g1")
SessionStep(op, arg) ==
    /\ Len(player'.calls) <= MaxInFlight
    /\ Bounded(player')
    /\ Step(op, arg)
    /\ UNCHANGED <<autoPlay, retryAmount, manager, resolver>>

\* the host calls player.connect() or player.setVoiceChannelId(channelId)
DoConnect ==
    \E channelId \in {Absent, "c1"} :
        /\ Registered(node)
        /\ player' = IF channelId = Absent THEN PlayerConnect(Begin(player))
                     ELSE SetVoiceChannelId(Begin(player), channelId)
        /\ node' = node
        /\ SessionStep("connect", channelId)

\* the host calls player.disconnect()
DoDisconnect ==
    /\ Registered(node)
    /\ player' = PlayerDisconnect(Begin(player), "disconnect")
    /\ node' = node
    /\ SessionStep("disconnect", Null)

\* the host calls player.destroy(disconnect)
DoDestroy ==
    \E disconnect \in BOOLEAN :
        /\ Registered(node)
        /\ player' = PlayerDestroy(Begin(player), disconnect)
        /\ node' = [node EXCEPT !.players["g1"] = "destroying"]
        /\ SessionStep("destroy", IF disconnect THEN "true" ELSE "false")

OnPauseAnswered ==
    \E i \in 1..Len(player.calls) :
        /\ player.calls[i].at = "pause"
        /\ player' = PauseAnswered(Begin(player), i)
        /\ node' = node
        /\ SessionStep("pauseAnswered", player.calls[i].op)

OnPauseRejected ==
    \E i \in 1..Len(player.calls) :
        /\ player.calls[i].at = "pause"
        /\ player' = PauseRejected(Begin(player), i)
        /\ node' = node
        /\ SessionStep("pauseRejected", player.calls[i].op)

\* this.manager.players.delete(this.guildId) ends the destroy() that was answered
OnDeleteAnswered ==
    \E i \in 1..Len(player.calls) :
        /\ player.calls[i].at = "delete"
        /\ player' = DeleteAnswered(Begin(player), i)
        /\ node' = [node EXCEPT !.players["g1"] = "none"]
        /\ SessionStep("deleteAnswered", Null)

OnDeleteRejected ==
    \E i \in 1..Len(player.calls) :
        /\ player.calls[i].at = "delete"
        /\ player' = DeleteRejected(Begin(player), i)
        /\ node' = node
        /\ SessionStep("deleteRejected", Null)

\* the gateway reports the voice state of the bot: it is in a channel, or in none
OwnVoiceStates ==
    {data \in VoicePackets :
        /\ data.kind = "state" /\ data.user = ClientId /\ data.t = "VOICE_STATE_UPDATE"
        /\ data.session = "s1" /\ data.channel \in {"c1", Null}}
OnOwnVoiceState ==
    \E data \in OwnVoiceStates :
        /\ Registered(node)
        /\ player' = UpdateVoiceState(Begin(player), data)
        /\ node' = node
        /\ SessionStep("voice", data.channel)

\* the host uses the player it created
SessionPlay == Registered(node) /\ DoPlay

(***************************************************************************)
(* Specifications                                                          *)
(***************************************************************************)
Init ==
    /\ PlayerInit
    /\ LastInit
    /\ NodeInit
    /\ ManagerInit
    /\ ResolverInit
    /\ autoPlay \in BOOLEAN
    /\ retryAmount = DefaultRetryAmount

Next ==
    \/ HostQueueAdd
    \/ HostQueueRemove
    \/ DoSetTrackRepeat
    \/ DoSetQueueRepeat
    \/ DoPause
    \/ OnTrackStart
    \/ OnTrackEnd
    \/ OnResolved
    \/ OnRejected

Spec == Init /\ [][Next]_vars

NextQueue == DoQueueAdd \/ DoQueueRemove

SpecQueue == Init /\ [][NextQueue]_vars

InitNode ==
    /\ PlayerInit
    /\ LastInit
    /\ NodeInit
    /\ ManagerInit
    /\ ResolverInit
    /\ autoPlay = TRUE
    /\ retryAmount \in 1..MaxRetryAmount

NextNode ==
    \/ HostConnect
    \/ HostDestroy
    \/ HostDestroyNode
    \/ HostCreatePlayer
    \/ PlayerDestroyed
    \/ PlayerDestroyFailed
    \/ SocketOpen
    \/ SocketFail
    \/ SocketClose
    \/ StrayOpen
    \/ StrayFail
    \/ StrayClose
    \/ TimerFires
    \/ LostTimerFires

SpecNode == InitNode /\ [][NextNode]_vars

\* a player constructed with a volume option, or with none
InitControl ==
    /\ player \in {Begin(NewPlayer(volume, Null)) : volume \in VolumeInputs}
    /\ LastInit
    /\ NodeInit
    /\ ManagerInit
    /\ ResolverInit
    /\ autoPlay = TRUE
    /\ retryAmount = DefaultRetryAmount

NextControl == DoSetVolume \/ DoSeek \/ HostQueueAdd \/ HostQueueRemove

SpecControl == InitControl /\ [][NextControl]_vars

NextVoice == OnVoicePacket \/ HostQueueAdd \/ OnTrackStart

SpecVoice == Init /\ [][NextVoice]_vars

NextShuffle == ShuffleAdd \/ DoShuffle \/ DoUnshuffle \/ DoSetShufflePlay

InitShuffle == Init /\ autoPlay = TRUE

\* shuffle play switched on and off over queues of resolved tracks
NextToggle == ToggleAdd \/ ToggleShufflePlay
SpecToggle == InitShuffle /\ [][NextToggle]_vars

SpecShuffle == InitShuffle /\ [][NextShuffle]_vars

NextResolve == DoGetClosestTrack

InitResolve ==
    /\ PlayerInit
    /\ LastInit
    /\ NodeInit
    /\ ManagerInit
    /\ ResolverAwaits
    /\ autoPlay = TRUE
    /\ retryAmount = DefaultRetryAmount

SpecResolve == InitResolve /\ [][NextResolve]_vars

\* a pool constructed with one node
InitPool ==
    /\ PlayerInit /\ LastInit /\ NodeInit /\ ResolverInit
    /\ autoPlay = TRUE /\ retryAmount = DefaultRetryAmount
    /\ manager = NewManager(<<"n1">>)
NextPool == NodeConnects \/ NodeDisconnects \/ OnStats \/ DoCreateNode \/ DoCreatePlayer
SpecPool == InitPool /\ [][NextPool]_vars

\* two nodes of one pool, their sockets, their 'ready' frames and their players
InitTeardown ==
    /\ PlayerInit /\ LastInit /\ NodeInit /\ ResolverInit
    /\ autoPlay = TRUE /\ retryAmount = DefaultRetryAmount
    /\ manager = NewManager(NodeOrder)
NextTeardown ==
    \/ NodeConnects
    \/ NodeDisconnects
    \/ OnReady
    \/ OnStats
    \/ PinPlayer
    \/ DoNodeDestroy
    \/ OnPlayerRemoved
SpecTeardown == InitTeardown /\ [][NextTeardown]_vars

InitFrames == InitShuffle
NextFrames ==
    \/ FirstConnect
    \/ SocketOpen
    \/ HostCreatePlayer
    \/ SessionQueueAdd
    \/ SessionResolved
    \/ OnMessage
SpecFrames == InitFrames /\ [][NextFrames]_vars

\* event frames for guilds whose player is, is not yet or is no longer in the pool
NextDrop ==
    \/ FirstConnect
    \/ SocketOpen
    \/ CreateFirstPlayer
    \/ ManagerDestroy
    \/ SessionQueueAdd
    \/ SessionResolved
    \/ OnEvent
SpecDrop == InitFrames /\ [][NextDrop]_vars

\* play() over tracks none of which resolves: every search the call awaits
\* settles, and settles with a rejection
NextRetry ==
    \/ HostQueueAdd
    \/ HostQueueRemove
    \/ DoPlay
    \/ OnRejected
SpecRetry == Init /\ [][NextRetry]_vars /\ WF_vars(OnRejected)

\* a TrackStuckEvent or a TrackExceptionEvent of the player's guild
OnTrackStuck ==
    /\ player' = TrackStuck(Begin(player))
    /\ Step("trackStuck", Null)
    /\ UNCHANGED <<autoPlay, node, retryAmount, manager, resolver>>
OnTrackError ==
    /\ player' = TrackError(Begin(player))
    /\ Step("trackError", Null)
    /\ UNCHANGED <<autoPlay, node, retryAmount, manager, resolver>>

NextSession ==
    \/ HostQueueAdd
    \/ HostQueueRemove
    \/ DoClear
    \/ DoPlay
    \/ DoStop
    \/ DoSetTrackRepeat
    \/ DoSetQueueRepeat
    \/ OnTrackStart
    \/ OnTrackEnd
    \/ OnTrackStuck
    \/ OnTrackError
    \/ OnResolved
    \/ OnRejected
SpecSession == Init /\ [][NextSession]_vars

\* a player in the pool, constructed with a voice channel or without one
InitLifecycle ==
    /\ player \in {Begin(NewPlayer(<<>>, channelId)) : channelId \in {Null, "c1"}}
    /\ node = [NodeFields EXCEPT !.players["g1"] = "bound"]
    /\ LastInit /\ ManagerInit /\ ResolverInit
    /\ autoPlay = TRUE /\ retryAmount = DefaultRetryAmount
NextLifecycle ==
    \/ SessionQueueAdd
    \/ SessionPlay
    \/ DoConnect
    \/ DoDisconnect
    \/ DoDestroy
    \/ OnPauseAnswered
    \/ OnPauseRejected
    \/ OnDeleteAnswered
    \/ OnDeleteRejected
    \/ OnOwnVoiceState
    \/ OnResolved
    \/ OnRejected
SpecLifecycle == InitLifecycle /\ [][NextLifecycle]_vars

\* the playing and paused flags under every command and event that sets them
NextFlags ==
    \/ ResolvedAdd
    \/ ResolvedPlay
    \/ DoPause
    \/ DoStop
    \/ DoDisconnect
    \/ OnPauseAnswered
    \/ OnPauseRejected
    \/ OnOwnVoiceState
    \/ OnTrackStart
    \/ OnTrackOver
SpecFlags == InitLifecycle /\ [][NextFlags]_vars

NextRest ==
    \/ NodeConnects
    \/ NodeDisconnects
    \/ DoSearch
    \/ DoRequest
    \/ OnResponse
    \/ OnRequestFailure

SpecRest == Init /\ [][NextRest]_vars

(***************************************************************************)
(* Properties of the track-end decision (checked under Spec)               *)
(***************************************************************************)
TrackEnded(reason) == last'.op = "trackEnd" /\ last'.arg = reason

\* what "emit trackEnd for c, then autoplay with t current" puts out
TrackEndOut(c, t) ==
    <<<<"emit", "trackEnd", c>>>>
    \o (IF autoPlay
        THEN <<<<"play", Null, t>>>>
             \o (IF IsUnresolvedTrack(t) THEN <<>> ELSE <<<<"updatePlayer", "encodedTrack", t>>>>)
        ELSE <<>>)
\* player.play() on an unresolved t awaits its resolution
AutoPlayAwaits(t) ==
    player'.resolving =
        (IF autoPlay /\ IsUnresolvedTrack(t) THEN Append(player.resolving, t) ELSE player.resolving)
\* the queue ended for c
QueueEnded(c) ==
    /\ player'.current = Null
    /\ player'.queue = <<>>
    /\ ~player'.playing
    /\ player'.out = <<<<"emit", "queueEnd", c>>>>
    /\ player'.resolving = player.resolving
\* the front of q became current
Advanced(c, q) ==
    /\ player'.current = Head(q)
    /\ player'.queue = Tail(q)
    /\ player'.out = TrackEndOut(c, Head(q))
    /\ AutoPlayAwaits(Head(q))
    /\ player'.playing = player.playing

\* C1: 'finished' with no repeat flag, a current C and a queue [A, ...rest]: previous
\* becomes C, current becomes A, the queue becomes rest, exactly one 'trackEnd' and no
\* 'queueEnd' is emitted, and with autoPlay (only then) play is issued for A after it.
C1_FinishedAdvances ==
    [][(/\ TrackEnded("finished")
        /\ ~player.trackRepeat /\ ~player.queueRepeat
        /\ player.current # Null /\ player.queue # <<>>)
       => /\ player'.previous = player.current
          /\ Advanced(player.current, player.queue)]_vars

C1_Witness ==
    /\ last.op = "trackEnd" /\ last.arg = "finished"
    /\ ~player.trackRepeat /\ ~player.queueRepeat /\ autoPlay
    /\ player.previous = "R" /\ player.current = "A" /\ player.queue = <<"U">>
    /\ player.out = <<<<"emit", "trackEnd", "R">>, <<"play", Null, "A">>,
                      <<"updatePlayer", "encodedTrack", "A">>>>

\* C2: a 'loadFailed' or 'cleanup' end, whatever the repeat flags: previous becomes the
\* old current and current the popped queue front (queue-end if the queue was empty);
\* the failed track is neither left in current nor appended to the queue again.
C2_LoadFailedAdvances ==
    [][(last'.op = "trackEnd" /\ last'.arg \in {"loadFailed", "cleanup"})
       => /\ player'.previous = player.current
          /\ IF player.queue = <<>>
             THEN QueueEnded(player.current)
             ELSE Advanced(player.current, player.queue)]_vars

\* C3: track repeat with a current C: 'finished' leaves current and the queue alone,
\* emits 'trackEnd' and (autoPlay) plays C again; 'stopped' makes previous C and pops
\* the queue front into current, ending the queue when it is empty.
C3_TrackRepeat ==
    [][(last'.op = "trackEnd" /\ player.trackRepeat /\ player.current # Null)
       => /\ (last'.arg = "finished"
               => /\ player'.current = player.current
                  /\ player'.queue = player.queue
                  /\ player'.previous = player.previous
                  /\ player'.out = TrackEndOut(player.current, player.current)
                  /\ AutoPlayAwaits(player.current))
          /\ (last'.arg = "stopped"
               => /\ player'.previous = player.current
                  /\ IF player.queue = <<>>
                     THEN QueueEnded(player.current)
                     ELSE Advanced(player.current, player.queue))]_vars

C3_Witness ==
    /\ last.op = "trackEnd" /\ last.arg = "finished"
    /\ player.trackRepeat /\ autoPlay
    /\ player.current = "A" /\ player.queue = <<"U">>
    /\ player.out = <<<<"emit", "trackEnd", "A">>, <<"play", Null, "A">>,
                      <<"updatePlayer", "encodedTrack", "A">>>>

\* C4: 'finished' with an empty queue, a current C and no repeat flag: current becomes
\* null, playing false, exactly one 'queueEnd' and nothing else is put out.
C4_FinishedEndsQueue ==
    [][(/\ TrackEnded("finished")
        /\ ~player.trackRepeat /\ ~player.queueRepeat
        /\ player.current # Null /\ player.queue = <<>>)
       => /\ QueueEnded(player.current)
          /\ player'.previous = player.previous]_vars

C4_Witness ==
    /\ last.op = "trackEnd" /\ last.arg = "finished"
    /\ ~player.trackRepeat /\ ~player.queueRepeat
    /\ player.current = Null /\ player.queue = <<>> /\ ~player.playing
    /\ player.out = <<<<"emit", "queueEnd", "A">>>>

\* C5: queue repeat with a current C: previous becomes C; 'stopped' pops the queue
\* front into current (queue-end if empty) and drops C; 'finished' appends C to the
\* back and then pops the front, so the number of tracks and their cyclic order are
\* kept and a lone track replays itself.
C5_QueueRepeat ==
    [][(last'.op = "trackEnd" /\ player.queueRepeat /\ player.current # Null)
       => /\ (last'.arg = "stopped"
               => /\ player'.previous = player.current
                  /\ IF player.queue = <<>>
                     THEN QueueEnded(player.current)
                     ELSE Advanced(player.current, player.queue))
          /\ (last'.arg = "finished"
               => /\ player'.previous = player.current
                  /\ Advanced(player.current, Append(player.queue, player.current))
                  /\ <<player'.current>> \o player'.queue
                       = Append(player.queue, player.current)
                  /\ TotalSize(player') = TotalSize(player)
                  /\ (player.queue = <<>> => player'.current = player.current))]_vars

C5_Witness ==
    /\ last.op = "trackEnd" /\ last.arg = "finished"
    /\ player.queueRepeat
    /\ player.previous = "R" /\ player.current = "A" /\ player.queue = <<"U", "R">>

\* C6: a 'replaced' end only emits 'trackEnd': nothing of the player or its queue
\* changes and no command is issued, whatever the repeat flags and autoPlay are.
C6_ReplacedOnlyEmits ==
    [][TrackEnded("replaced")
       => player' = [player EXCEPT !.out = <<<<"emit", "trackEnd", player.current>>>>]]_vars

C6_Witness ==
    /\ last.op = "trackEnd" /\ last.arg = "replaced"
    /\ autoPlay /\ player.queueRepeat /\ player.playing
    /\ player.current = "A" /\ player.queue = <<"U">>
    /\ player.out = <<<<"emit", "trackEnd", "A">>>>

(***************************************************************************)
(* Properties of the queue (checked under SpecQueue)                       *)
(***************************************************************************)
HoldsCurrent(p) == p.current # Null /\ p.current \in Range(p.queue)
TotalSizeCounts == TotalSize(player) = Size(player) + (IF player.current # Null THEN 1 ELSE 0)

\* C7 as stated: under add and remove the queue never contains the current item, and
\* totalSize = size + (1 if current is non-null, else 0).
C7_QueueNeverHoldsCurrent == TotalSizeCounts /\ ~HoldsCurrent(player)

\* C7 as amended: totalSize = size + (1 if current is non-null, else 0), and only an
\* add that supplies a track the queue already holds (as current or queued), or that
\* supplies the same track twice, makes the queue contain the current item.
C7_OnlyHeldTracksDuplicate ==
    /\ []TotalSizeCounts
    /\ [][(HoldsCurrent(player') /\ ~HoldsCurrent(player))
          => (last'.op = "add" /\ last'.held)]_vars

C7_Witness ==
    /\ last.op = "remove"
    /\ player.current = "A" /\ player.queue = <<"U">>
    /\ player.out = <<>>

(***************************************************************************)
(* Properties of the node's connection lifecycle (checked under SpecNode)  *)
(***************************************************************************)
Put(name) == name \in Range(node'.out)

\* C8: when every connection attempt has failed and the reconnect callback finds the
\* attempts used up, it emits 'nodeError', opens no socket, and the node is destroyed:
\* 'nodeDestroy' is emitted and the node leaves the manager's pool.
C8_ExhaustedRetriesDestroy ==
    [][(/\ last'.op = "timer"
        /\ ~node.everOpened
        /\ node.reconnectAttempts >= retryAmount)
       => /\ Put("nodeError") /\ ~Put("socket") /\ ~Put("nodeReconnect")
          /\ Put("nodeDestroy")
          /\ ~node'.inPool]_vars

\* C9: when the node's socket opens, the attempt counter is 1 again and no reconnect
\* timer of the node stays pending.
C9_OpenResetsAttempts ==
    [][last'.op = "open"
       => /\ node'.reconnectAttempts = 1
          /\ node'.reconnectTimeout # "pending"]_vars

\* C10: once destroy() was called, no reconnect callback reconnects (no 'nodeReconnect',
\* no new socket) and no timer of the node stays pending; a close with code 1000 and
\* reason 'destroy' schedules no reconnect, every other close schedules one.
C10_NoReconnectAfterDestroy ==
    [][/\ (last'.op \in {"destroy", "destroyNode"}
            => node'.reconnectTimeout # "pending")
       /\ ((node.destroyCalled /\ last'.op = "timer")
            => ~Put("nodeReconnect") /\ ~Put("socket"))
       /\ (last'.op = "close"
            => IF last'.arg = "normal-destroy"
               THEN /\ node'.reconnectTimeout = node.reconnectTimeout
                    /\ node'.lostTimers = node.lostTimers
               ELSE /\ node'.reconnectTimeout = "pending"
                    /\ node'.lostTimers
                         = node.lostTimers + (IF node.reconnectTimeout = "pending" THEN 1 ELSE 0))]_vars

\* C11: a node that is no longer in the pool has no player bound to it left in the
\* player pool (a player whose destroy() is still running is not counted).
C11_NoPlayerOnRemovedNode ==
    ~node.inPool => \A g \in Guilds : node.players[g] # "bound"

(***************************************************************************)
(* Properties of the voice credentials (checked under SpecVoice)           *)
(***************************************************************************)
\* the update-player calls of the last handler that carry voice credentials
VoicePushes(p) == Cardinality({i \in 1..Len(p.out) : p.out[i][1] = "updatePlayer" /\ p.out[i][2] = "voice"})

\* C12: a voice packet makes updateVoiceState push the credentials at most once, and it
\* pushes exactly when token, endpoint and sessionId are all on the voice state and
\* the triple is not the one the player had before the packet.
C12_OnePushPerTriple ==
    [][last'.op = "voice"
       => /\ VoicePushes(player') <= 1
          /\ (VoicePushes(player') = 1
               <=> /\ HasCredentials(player'.voiceState)
                   /\ player'.voiceState # player.voiceState)]_vars

(***************************************************************************)
(* Properties of the player's commands                                     *)
(***************************************************************************)
\* C13: trackRepeat and queueRepeat are never both true; setTrackRepeat(b) sets
\* trackRepeat = b and queueRepeat = false, setQueueRepeat(b) sets queueRepeat = b and
\* trackRepeat = false, and no other operation or event changes either flag.
C13_RepeatFlagsExclusive ==
    /\ [](~(player.trackRepeat /\ player.queueRepeat))
    /\ [][/\ (last'.op = "setTrackRepeat"
               => player'.trackRepeat = (last'.arg = "true") /\ ~player'.queueRepeat)
          /\ (last'.op = "setQueueRepeat"
               => player'.queueRepeat = (last'.arg = "true") /\ ~player'.trackRepeat)
          /\ (last'.op \notin {"setTrackRepeat", "setQueueRepeat"}
               => /\ player'.trackRepeat = player.trackRepeat
                  /\ player'.queueRepeat = player.queueRepeat)]_vars

C13_Witness ==
    /\ last.op = "setQueueRepeat" /\ last.arg = "true"
    /\ player.queueRepeat /\ ~player.trackRepeat
    /\ player.current = "A" /\ player.previous = "R"

Clamp(x, lo, hi) == Min(Max(x, lo), hi)

C15_SeekClamped ==
    [][last'.op = "seek"
       => IF player.current = Null
          THEN player' = Begin(player)
          ELSE (last'.arg # <<>> /\ Duration(player.current) # <<>>)
               => /\ player'.position = <<Clamp(last'.arg[1], 0, Duration(player.current)[1])>>
                  /\ player'.out = <<<<"updatePlayer", "position", ToString(player'.position)>>>>]_vars

C15_Witness ==
    /\ last.op = "seek"
    /\ last.arg = <<4>>
    /\ player.current = "A"
    /\ player.position = <<2>>
    /\ player.out = <<<<"updatePlayer", "position", "<<2>>">>>>

\* what the last handler put out of one kind: "emit", "play", "updatePlayer", "throw"
Outputs(p, kind, name) ==
    Cardinality({i \in 1..Len(p.out) : p.out[i][1] = kind /\ p.out[i][2] = name})

\* C16: when the resolution of an unresolved current track fails, play() throws
\* nothing and emits exactly one 'trackError'; with a non-empty queue the front item
\* leaves the queue, becomes current and is played; with an empty queue no play
\* command is issued.
C16_RejectedTakesNext ==
    [][last'.op = "rejected"
       => /\ Outputs(player', "emit", "trackError") = 1
          /\ Outputs(player', "throw", "RangeError") = 0
          /\ IF player.queue # <<>>
             THEN /\ player'.current = Head(player.queue)
                  /\ player'.queue = Tail(player.queue)
                  /\ Outputs(player', "play", Null) = 1
             ELSE /\ Outputs(player', "play", Null) = 0
                  /\ Outputs(player', "updatePlayer", "encodedTrack") = 0]_vars

(***************************************************************************)
(* Properties of the track resolver (checked under SpecResolve)            *)
(***************************************************************************)
AuthorMatches(u, track) ==
    Lower(track.author) \in {Lower(u.author), Lower(Topic(u.author))}
TitleMatches(u, track) == Lower(track.title) = Lower(u.title)
Resolved == resolver.settled /\ last.op = "getClosestTrack" /\ resolver.res.loadType = "search"
HasAuthorMatch ==
    /\ resolver.unresolved.author # Absent
    /\ \E i \in 1..Len(resolver.res.tracks) :
           AuthorMatches(resolver.unresolved, resolver.res.tracks[i])

Count(q, t) == Cardinality({i \in 1..Len(q) : q[i] = t})
SameTracks(q, r) == Len(q) = Len(r) /\ \A t \in Tracks : Count(q, t) = Count(r, t)
DistinctStamps(q) ==
    /\ \A i \in 1..Len(q) : BuildedAt(q[i]) # <<>>
    /\ \A i, j \in 1..Len(q) : i # j => BuildedAt(q[i]) # BuildedAt(q[j])
AscendingStamps(q) ==
    \A i \in 1..(Len(q) - 1) : BuildedAt(q[i])[1] < BuildedAt(q[i + 1])[1]

\* C18: shuffle() and unshuffle() only reorder the queue and leave current and previous
\* alone; on a queue of tracks with pairwise distinct creation stamps unshuffle()
\* yields the order ascending by stamp, yields it again when repeated, and yields it
\* after whatever order a shuffle() leaves.
C18_UnshuffleRestores ==
    [][last'.op \in {"shuffle", "unshuffle"}
       => /\ SameTracks(player'.queue, player.queue)
          /\ player'.current = player.current
          /\ player'.previous = player.previous
          /\ (last'.op = "unshuffle" /\ DistinctStamps(player.queue))
               => /\ AscendingStamps(player'.queue)
                  /\ UnshuffleResults(player'.queue) = {player'.queue}
                  /\ \A s \in ShuffleResults(player.queue) :
                         UnshuffleResults(s) = {player'.queue}]_vars

C18_Witness ==
    /\ last.op = "unshuffle" /\ last.arg = "moved"
    /\ player.queue = <<"A", "C", "R">>
    /\ player.current = "B" /\ player.previous = Null

(***************************************************************************)
(* Properties of the REST counter and of search() (checked under SpecRest) *)
(***************************************************************************)
Calls(m, id) == m.nodes[id].calls

\* C19: a node's calls counter never decreases, and every REST call that ends, with a
\* JSON body, with another body or with a transport failure, has added exactly one.
C19_EveryCallCounted ==
    [][/\ \A id \in NodeIds : Calls(manager', id) >= Calls(manager, id)
       /\ (last'.op \in {"json", "text", "failure"}
            => /\ Calls(manager', last'.arg) = Calls(manager, last'.arg) + 1
               /\ \A id \in NodeIds \ {last'.arg} : Calls(manager', id) = Calls(manager, id))]_vars

\* C20: search() sends its load-tracks call to a connected node whose calls counter is
\* the smallest among the connected nodes; with no connected node it throws
\* 'No available nodes' and sends no call.
C20_SearchOnLeastUsed ==
    [][last'.op = "search"
       => LET connected == {id \in NodeIds : manager.nodes[id].connected}
          IN IF connected = {}
             THEN /\ manager'.out = <<<<"throw No available nodes.", Null>>>>
                  /\ manager'.nodes = manager.nodes
             ELSE /\ last'.arg \in connected
                  /\ \A id \in connected : Calls(manager, last'.arg) <= Calls(manager, id)
                  /\ manager'.nodes[last'.arg].requests
                       = manager.nodes[last'.arg].requests + 1]_vars

\* the load the pool ranks a node by: (systemLoad / cores) * 100 as a fraction,
\* and 0 for a node that has no cpu statistics
RankedLoad(cpu) ==
    IF cpu = <<>> \/ cpu[1].cores = 0 THEN [num |-> 0, den |-> 1]
    ELSE [num |-> cpu[1].systemLoad * 100, den |-> cpu[1].cores]
NoMoreLoaded(m, a, b) ==
    RankedLoad(m.nodes[a].cpu).num * RankedLoad(m.nodes[b].cpu).den
        <= RankedLoad(m.nodes[b].cpu).num * RankedLoad(m.nodes[a].cpu).den
ConnectedPool(m) == {id \in Range(m.order) : m.nodes[id].connected}
AscendingByLoad(m, nodes) ==
    \A i, j \in 1..Len(nodes) : i < j => NoMoreLoaded(m, nodes[i], nodes[j])

\* C21: leastLoadNodes holds exactly the connected nodes, in ascending order of
\* their load, and a player created for a new guild with no node named is
\* bound to a connected node no other connected node is less loaded than; with
\* no connected node the creation throws 'No available nodes.' and registers
\* no player
C21_LeastLoadedNodeChosen ==
    [][/\ last'.op = "createPlayer"
       /\ last'.data.registered = "new"
       /\ last'.data.node = Absent
       => /\ Range(LeastLoadNodes(manager)) = ConnectedPool(manager)
          /\ Len(LeastLoadNodes(manager)) = Cardinality(ConnectedPool(manager))
          /\ AscendingByLoad(manager, LeastLoadNodes(manager))
          /\ IF ConnectedPool(manager) = {}
             THEN /\ manager'.out = <<<<"throw No available nodes.", last'.data.guildId>>>>
                  /\ manager'.players = manager.players
             ELSE /\ manager'.players[last'.data.guildId] \in ConnectedPool(manager)
                  /\ \A id \in ConnectedPool(manager) :
                         NoMoreLoaded(manager, manager'.players[last'.data.guildId], id)]_vars

\* C22: creating a node under a key the node pool has, or a player for a guild
\* the player pool has, changes neither the pool nor the instance it has and
\* emits nothing; the node pool never holds a key twice, and the player pool
\* is a map by guild
C22_RegistrationIdempotent ==
    [][/\ (/\ last'.op \in {"createNode", "createPlayer"}
           /\ last'.data.registered = "existing"
           => manager' = ManagerBegin(manager))
       /\ \A i, j \in 1..Len(manager'.order) :
              manager'.order[i] = manager'.order[j] => i = j]_vars
C22_Witness ==
    /\ last.op = "createPlayer"
    /\ last.data.registered = "existing"
    /\ manager.players[last.data.guildId] # Null
    /\ manager.out = <<>>

\* C23: pause(p) on a session whose paused flag is p already, or whose
\* totalSize is 0, changes nothing and sends nothing; any other pause(p) sets
\* paused to p and playing to its negation, changes nothing else, and sends
\* one update-player call, with paused = p
C23_PauseNoOpOrOneCall ==
    [][last'.op = "pause"
       => IF player.paused = (last'.arg = "true") \/ TotalSize(player) = 0
          THEN player' = Begin(player)
          ELSE /\ player'.paused = (last'.arg = "true")
               /\ player'.playing = (last'.arg # "true")
               /\ player'.out = <<<<"updatePlayer", "paused", last'.arg>>>>
               /\ [player' EXCEPT !.paused = player.paused, !.playing = player.playing,
                                   !.out = <<>>] = Begin(player)]_vars
C23_Witness ==
    /\ last.op = "pause"
    /\ last.arg = "true"
    /\ player.paused
    /\ ~player.playing
    /\ Outputs(player, "updatePlayer", "paused") = 1

\* the emits of one event with one argument among the outputs
Emits(p, name, arg) ==
    Cardinality({i \in 1..Len(p.out) : p.out[i] = <<"emit", name, arg>>})

NodeErrors(n) == Cardinality({i \in 1..Len(n.out) : n.out[i] = "nodeError"})

\* C25: a frame whose op is not 'ready', 'playerUpdate', 'stats' or 'event', and
\* an 'event' frame whose type is not one of the five event types, emits one
\* 'nodeError' and changes nothing of the node (its socket and its reconnect
\* timer included), of the pool or of the player
C25_UnknownFrameReported ==
    [][/\ last'.op = "message"
       /\ last'.data.op # Absent
       /\ \/ last'.data.op \notin {"ready", "playerUpdate", "stats", "event"}
          \/ last'.data.op = "event" /\ last'.data.type \notin EventTypes
       => /\ NodeErrors(node') = 1
          /\ [node' EXCEPT !.out = <<>>] = NodeBegin(node)
          /\ manager' = ManagerBegin(manager)
          /\ player' = Begin(player)]_vars

\* C26: while a play() awaits the resolution of its track, no track end changes
\* current or previous, and the resolution puts its result into a current that
\* still is the track play() set out to resolve
C26_PlaySerialized ==
    [][/\ (last'.op = "trackEnd" /\ player.resolving # <<>>
           => player'.current = player.current /\ player'.previous = player.previous)
       /\ (last'.op = "resolved"
           => \E i \in 1..Len(player.resolving) : player.current = player.resolving[i])]_vars

\* C28, as stated: current is null exactly when the player is not playing and
\* the queue is empty
C28_CurrentNullIffIdle ==
    (player.current = Null) <=> (~player.playing /\ player.queue = <<>>)

\* C28: through add, remove, clear, play, stop and the track events, the queue
\* is empty whenever current is null (current may hold a track while nothing
\* plays and the queue is empty, and playing may be set while current is null)
C28_NoQueueWithoutCurrent == player.current = Null => player.queue = <<>>
C28_Witness ==
    /\ last.op = "trackEnd"
    /\ player.current = Null
    /\ player.previous # Null
    /\ player.queue = <<>>
    /\ Emits(player, "queueEnd", player.previous) = 1

UpdatePlayerCalls(p) == Cardinality({i \in 1..Len(p.out) : p.out[i][1] = "updatePlayer"})

\* C27: once destroy() has taken the player out of the pool, no completion
\* that was outstanding (a track resolution a play() awaits, an answer a
\* disconnect() awaits) sends an update-player call or puts the player back
C27_NoCallAfterDestroy ==
    [][/\ ~Registered(node)
       /\ last'.op \in {"resolved", "rejected", "pauseAnswered", "pauseRejected"}
       => /\ UpdatePlayerCalls(player') = 0
          /\ ~Registered(node')]_vars

DestroyInFlight(p) == \E i \in 1..Len(p.calls) : p.calls[i].op = "destroy"

\* C29: destroy(disconnect) sets the state to 'DESTROYING', and the state is
\* 'DESTROYING' for as long as the call is in flight; the answer of its
\* delete-player call emits 'playerDestroy' once and takes the player out of
\* the pool, in the state 'DESTROYING'
C29_DestroyingUntilRemoved ==
    [][/\ (DestroyInFlight(player') => player'.state = "DESTROYING")
       /\ (last'.op = "deleteAnswered"
           => /\ Emits(player', "playerDestroy", Null) = 1
              /\ ~Registered(node')
              /\ player'.state = "DESTROYING")]_vars

Returned(p, op) == \E i \in 1..Len(p.out) : p.out[i] = <<"return", op, Null>>
Sent(p, channel) == Cardinality({i \in 1..Len(p.out) : p.out[i] = <<"send", "op 4", channel>>})

\* C30: when a disconnect() returns, the state is 'DISCONNECTED' and
\* voiceChannelId is null; if the player had a voice channel, the leave
\* payload was sent before that
C30_DisconnectedAfterDisconnect ==
    [][Returned(player', "disconnect")
       => /\ player'.state = "DISCONNECTED"
          /\ player'.voiceChannelId = Null
          /\ (last'.op = "disconnect" /\ player.voiceChannelId # Null
                => Sent(player', Null) = 1)
          /\ (last'.op = "pauseAnswered" => Sent(player', Null) = 1)]_vars

(***************************************************************************)
(* Properties of the event handlers (checked under SpecSession, SpecFrames)*)
(***************************************************************************)
PlayerEmits(p) == Cardinality({i \in 1..Len(p.out) : p.out[i][1] = "emit"})

\* C31: a TrackStuckEvent or a TrackExceptionEvent issues exactly one stop
\* command (update-player with a null track) and emits 'trackStuck' or
\* 'trackError' once, with the track that was current when the event was
\* dispatched; the handler changes neither current, previous nor the queue
C31_StuckOrErrorStopsOnce ==
    [][last'.op \in {"trackStuck", "trackError"}
       => /\ UpdatePlayerCalls(player') = 1
          /\ \E i \in 1..Len(player'.out) : player'.out[i] = <<"updatePlayer", "encodedTrack", Null>>
          /\ PlayerEmits(player') = 1
          /\ Emits(player', last'.op, player.current) = 1
          /\ player'.current = player.current
          /\ player'.previous = player.previous
          /\ player'.queue = player.queue]_vars
C31_Witness ==
    /\ last.op = "trackStuck"
    /\ player.current # Null
    /\ player.queue # <<>>
    /\ Emits(player, "trackStuck", player.current) = 1

\* what a step leaves of the player: everything but the outputs of its handler
SamePlayer(p, q) == [p EXCEPT !.out = <<>>] = [q EXCEPT !.out = <<>>]

\* C32: an 'event' frame without a guildId, or with the guildId of a guild that
\* has no player in the pool, changes nothing of the player or of the pool,
\* issues no command and emits nothing but the raw frame
C32_EventWithoutPlayerDropped ==
    [][/\ last'.op = "message"
       /\ last'.data.op = "event"
       /\ last'.data.guildId = Absent \/ ~HasPlayer(node, last'.data.guildId)
       => /\ SamePlayer(player', player)
          /\ player'.out = <<>>
          /\ node'.out = <<"nodeRaw">>
          /\ [node' EXCEPT !.out = <<>>] = NodeBegin(node)
          /\ manager' = ManagerBegin(manager)]_vars
C32_Witness ==
    /\ last.op = "message"
    /\ last.data.op = "event"
    /\ last.data.type = "TrackEndEvent"
    /\ last.data.guildId = "g1"
    /\ ~HasPlayer(node, "g1")
    /\ player.current # Null
    /\ player.queue # <<>>
    /\ node.out = <<"nodeRaw">>

StopCommands(p) ==
    Cardinality({i \in 1..Len(p.out) : p.out[i] = <<"updatePlayer", "encodedTrack", Null>>})
Skipped(arg) == arg \in {ToString(n) : n \in 2..(MaxQueue + 1)}

\* C33: stop(n) with 1 < n <= queue length removes exactly the first n - 1
\* queued items and issues one stop command, and the TrackEndEvent(stopped)
\* that follows makes the front of what is left (the n-th item of the queue
\* stop(n) found) current; stop(n) with n beyond the queue length throws a
\* RangeError, removes nothing and issues no command; stop() and stop(1)
\* remove nothing
C33_StopSkipsToNth ==
    [][/\ \A n \in 2..(MaxQueue + 1) :
              last'.op = "stop" /\ last'.arg = ToString(n)
              => IF n <= Len(player.queue)
                 THEN /\ player'.queue = SubSeq(player.queue, n, Len(player.queue))
                      /\ Head(player'.queue) = player.queue[n]
                      /\ StopCommands(player') = 1
                      /\ UpdatePlayerCalls(player') = 1
                      /\ Outputs(player', "throw", "RangeError") = 0
                 ELSE /\ player'.queue = player.queue
                      /\ Outputs(player', "throw", "RangeError") = 1
                      /\ UpdatePlayerCalls(player') = 0
       /\ (last'.op = "stop" /\ last'.arg \in {Absent, "1"}
           => player'.queue = player.queue /\ StopCommands(player') = 1)
       /\ (last'.op = "stop" => player'.current = player.current)
       /\ (/\ last.op = "stop" /\ Skipped(last.arg) /\ StopCommands(player) = 1
           /\ last'.op = "trackEnd" /\ last'.arg = "stopped"
           => player'.current = Head(player.queue) /\ player'.queue = Tail(player.queue))]_vars
C33_Witness ==
    /\ last.op = "stop"
    /\ last.arg = "2"
    /\ StopCommands(player) = 1
    /\ player.current = "A"
    /\ player.queue = <<"U">>

(***************************************************************************)
(* Properties of Queue.add (checked under SpecQueue)                       *)
(***************************************************************************)
Added == last.op = "add" /\ last.data # NoData
Failed(p) == Outputs(p, "throw", "RangeError") > 0

\* items put into q at offset, or at its end when no offset is given
Inserted(q, items, offset) ==
    IF offset = <<>> THEN q \o items
    ELSE SubSeq(q, 1, offset[1]) \o items \o SubSeq(q, offset[1] + 1, Len(q))

\* C34: an add that succeeds on a queue whose current is null makes the first
\* supplied item current and queues only the remainder; with current set it
\* leaves current as it is and inserts all supplied items in their order at
\* the offset, or at the end when no offset is given; the items the queue held
\* keep their order
C34_AddFillsCurrentThenQueue ==
    [][Added' /\ ~Failed(player')
       => LET items == last'.data.items
              offset == last'.data.offset
          IN /\ player'.previous = player.previous
             /\ IF player.current = Null
                THEN /\ player'.current = Head(items)
                     /\ player'.queue = IF last'.data.arr
                                        THEN Inserted(player.queue, Tail(items), offset)
                                        ELSE player.queue
                ELSE /\ player'.current = player.current
                     /\ offset # <<>> => offset[1] \in 0..Len(player.queue)
                     /\ player'.queue = Inserted(player.queue, items, offset)]_vars
C34_Witness ==
    /\ Added
    /\ ~Failed(player)
    /\ last.data.items = <<"U">>
    /\ last.data.offset = <<0>>
    /\ player.current = "A"
    /\ player.queue = <<"U", "A">>

\* C39: an add that fails (an argument that is no track and no array of
\* tracks, or an offset outside 0..length) leaves the queue, current and
\* previous as they were
C39_FailedAddChangesNothing ==
    [][Added' /\ Failed(player')
       => /\ player'.queue = player.queue
          /\ player'.current = player.current
          /\ player'.previous = player.previous]_vars

(***************************************************************************)
(* Properties of shuffle play (checked under SpecShuffle)                  *)
(***************************************************************************)
\* the last step was setShufflePlay(enabled)
SetShufflePlay(l, enabled) == "enabled" \in DOMAIN l.data /\ l.data.enabled = enabled

\* C35: setShufflePlay(false) right after setShufflePlay(true) puts the queue
\* back into the order it had before shuffle play was enabled, whatever that
\* order was, and leaves current and previous alone
C35_ShufflePlayRoundTrip ==
    [][SetShufflePlay(last, TRUE) /\ SetShufflePlay(last', FALSE)
       => /\ player'.queue = last.data.before
          /\ player'.current = player.current
          /\ player'.previous = player.previous]_vars

(***************************************************************************)
(* Termination of play() (checked under SpecRetry)                         *)
(***************************************************************************)
\* C36: a play() call whose tracks all fail to resolve comes to its end: it
\* does not go on resolving the same queue head for ever
C36_PlayReturns == (player.resolving # <<>>) ~> (player.resolving = <<>>)

(***************************************************************************)
(* Sockets of a node (checked under SpecNode)                              *)
(***************************************************************************)
\* the sockets whose open, close, message and error handlers are the node's
AttachedSockets(n) ==
    (IF n.socket = Null THEN 0 ELSE 1) + n.strayConnecting + n.strayOpen

\* C37: a node never has more than one socket with attached handlers; a
\* connect() while a socket is still connecting creates no second one
C37_OneAttachedSocket == AttachedSockets(node) <= 1

(***************************************************************************)
(* Node.destroy and the players of other nodes (checked under SpecTeardown)*)
(***************************************************************************)
\* C38: node.destroy() calls destroy() on no player bound to another node:
\* such a player stays in the pool and is not put into 'DESTROYING', also
\* when neither node has had its 'ready' frame
C38_DestroySparesOtherNodes ==
    [][last'.op = "nodeDestroy"
       => \A g \in Guilds :
              manager.players[g] \notin {Null, last'.arg}
              => /\ manager'.players[g] = manager.players[g]
                 /\ (g \in manager'.destroying) = (g \in manager.destroying)]_vars

(***************************************************************************)
(* The playing and paused flags (checked under SpecFlags)                  *)
(***************************************************************************)
\* C40: playing and paused are never both true, and a handler that has
\* emitted 'queueEnd' leaves playing false
C40_NeverPlayingAndPaused ==
    /\ ~(player.playing /\ player.paused)
    /\ (Outputs(player, "emit", "queueEnd") > 0 => ~player.playing)
C40_Witness ==
    /\ Outputs(player, "emit", "queueEnd") = 1
    /\ player.paused
    /\ ~player.playing
    /\ last.op = "trackEnd"
====
